---- MODULE Spec2Model ----
(***************************************************************************)
(* Replay of a Counter-Strike server log: the event stream produced by the *)
(* log parser is folded by MatchReportFactory into a MatchInProgress       *)
(* (log_parser/match.py), which closes RoundReports (log_parser/report.py) *)
(* as the events of log_parser/event.py impact it.                         *)
(***************************************************************************)
EXTENDS Integers, Sequences, FiniteSets, TLC

(***************************************************************************)
(* Bounds of the explored inputs.                                          *)
(***************************************************************************)
MaxEvents == 4        \* length of the event list handed to the factory
MaxTime == 2          \* timestamps are drawn from 1..MaxTime, in any order
MaxLines == 3         \* number of lines of the log handed to LogParser
MaxFolds == 2         \* number of events folded into the table of stats
MaxEventsEach == 3    \* events of each of the logs replayed side by side
MaxScorers == 2       \* scorers a StatsTable is configured with
MaxMatches == 3       \* match reports handed to the rating scorer
MaxRounds == 2        \* rounds won, and rounds lost, in a table of collected stats

Times == 1 .. MaxTime
SteamIds == {111, 222}
Nicknames == {"Mcd", "Rocho"}
MapNames == {"awp_india"}
Weapons == {"awp"}
Damages == {13}

\* entity.py: the three teams; only CT and TERRORIST are keys of the roster
CT_team == "CT"
Terrorist_team == "TERRORIST"
Spectator_team == "SPECTATOR"
Teams == {CT_team, Terrorist_team, Spectator_team}
RosterTeams == {CT_team, Terrorist_team}

None == "None"

\* entity.py: a Player is a nickname and a steam id
Players == [nickname : Nicknames, steam_id : SteamIds]

\* a wrong Player.__eq__: the nickname is compared too
PlayerEq_nickname(p, q) == p = q

\* Player.__eq__: players are identified by their steam id alone
PlayerEq(p, q) == p.steam_id = q.steam_id

\* Player.__hash__
PlayerHash(p) == p.steam_id

\* `player in list`, with Player.__eq__
PlayerIn(player, list) == \E i \in 1 .. Len(list) : PlayerEq(list[i], player)

\* list.remove(player): drops the first entry equal to player
ListRemove(list, player) ==
    LET i == CHOOSE k \in 1 .. Len(list) :
                 /\ PlayerEq(list[k], player)
                 /\ \A j \in 1 .. k - 1 : ~PlayerEq(list[j], player)
    IN  SubSeq(list, 1, i - 1) \o SubSeq(list, i + 1, Len(list))

(***************************************************************************)
(* The events of event.py, one record shape per kind.                      *)
(***************************************************************************)
MapLoadingEvent_(t, name) == [kind |-> "MapLoading", timestamp |-> t, map_name |-> name]
RoundStartEvent_(t) == [kind |-> "RoundStart", timestamp |-> t]
RoundEndEvent_(t) == [kind |-> "RoundEnd", timestamp |-> t]
MatchStartedEvent_(t) == [kind |-> "MatchStarted", timestamp |-> t]
MatchEndEvent_(t) == [kind |-> "MatchEnd", timestamp |-> t]
PlayerJoinsTeamEvent_(t, p, team) ==
    [kind |-> "PlayerJoinsTeam", timestamp |-> t, player |-> p, team |-> team]
PlayerDisconnectsEvent_(t, p) ==
    [kind |-> "PlayerDisconnects", timestamp |-> t, player |-> p]
TeamWinEvent_(t, team) == [kind |-> "TeamWin", timestamp |-> t, team |-> team]
ServerEvent_(t) == [kind |-> "Server", timestamp |-> t]
AttackEvent_(t, a, v, w, d) ==
    [kind |-> "Attack", timestamp |-> t, attacker |-> a, victim |-> v,
     weapon |-> w, damage |-> d]
KillEvent_(t, a, v, w) ==
    [kind |-> "Kill", timestamp |-> t, attacker |-> a, victim |-> v, weapon |-> w]

\* two players of the log, and the first of them under a later nickname
PlayerA == [nickname |-> "Mcd", steam_id |-> 111]
PlayerA2 == [nickname |-> "Rocho", steam_id |-> 111]
PlayerB == [nickname |-> "Mcd", steam_id |-> 222]

(***************************************************************************)
(* The inputs of the replay (Spec): every kind of event; the round         *)
(* boundaries carry any timestamp, in any order.                           *)
(***************************************************************************)
MapLoadingEvents == {MapLoadingEvent_(1, name) : name \in MapNames}
RoundStartEvents == {RoundStartEvent_(t) : t \in Times}
RoundEndEvents == {RoundEndEvent_(t) : t \in Times}
MatchStartedEvents == {MatchStartedEvent_(1)}
MatchEndEvents == {MatchEndEvent_(1)}
PlayerJoinsTeamEvents ==
    {PlayerJoinsTeamEvent_(1, PlayerA, CT_team),
     PlayerJoinsTeamEvent_(1, PlayerB, Terrorist_team),
     PlayerJoinsTeamEvent_(1, PlayerA2, Spectator_team)}
PlayerDisconnectsEvents == {PlayerDisconnectsEvent_(1, PlayerB)}
TeamWinEvents == {TeamWinEvent_(1, team) : team \in RosterTeams}
ServerEvents == {ServerEvent_(1)}
AttackEvents == {AttackEvent_(1, PlayerA, PlayerB, w, d) : w \in Weapons, d \in Damages}
KillEvents == {KillEvent_(1, PlayerA, PlayerB, w) : w \in Weapons}

(***************************************************************************)
(* The inputs of the roster replay (SpecRoster): every player joins every  *)
(* team and disconnects, around the round boundaries.                      *)
(***************************************************************************)
RosterJoins == {PlayerJoinsTeamEvent_(1, p, team) : p \in Players, team \in Teams}
RosterDisconnects == {PlayerDisconnectsEvent_(1, p) : p \in Players}
RosterRoundStarts == {RoundStartEvent_(1)}
RosterRoundEnds == {RoundEndEvent_(1)}

(***************************************************************************)
(* State.  The roster dictionaries live in a heap, because RoundInProgress *)
(* keeps a reference to the dictionary it is given, not a copy.            *)
(***************************************************************************)
VARIABLES
    pc,                    \* "running": in the factory's loop; "aborted_in_loop":
                           \* an event raised; "aborted_in_report":
                           \* get_match_report raised; "returned"
    processed,             \* the events the factory loop has taken so far
    heap,                  \* roster dictionaries, by reference
    map_name,              \* MatchInProgress._map_name
    match_events,          \* MatchInProgress._match_events
    ended_round_reports,   \* MatchInProgress._ended_round_reports
    ongoing_round,         \* MatchInProgress._ongoing_round: <<>> is None
    started,               \* MatchInProgress._started
    ended,                 \* MatchInProgress._ended
    result,                \* what the factory returned: <<>> is nothing
    max_events,            \* the factory is handed at most this many events
    parser_pc,             \* LogParser.get_events: "parsing" | "raised" | "returned"
    lines,                 \* the lines get_events has read so far
    events,                \* the local list `events` of get_events
    table,                 \* a table of PlayerStats keyed by Player
    stats_round,           \* the RoundReport whose events are folded
    folded,                \* the (player, event) pairs folded into the table
    matches,               \* MatchInProgress instances replayed side by side
    stats_table,           \* StatsTable.get_full_table: its locals and result
    glicko_scorer,         \* GlickoScorer._calculate_rankings: its locals
    win_rate_scorer        \* WinRateScorer.get_player_scores: its locals

replayVars == <<pc, processed, heap, map_name, match_events, ended_round_reports,
                ongoing_round, started, ended, result, max_events>>

parserVars == <<parser_pc, lines, events>>

statsVars == <<table, stats_round, folded>>

scoringVars == <<matches, stats_table, glicko_scorer, win_rate_scorer>>

vars == <<replayVars, parserVars, statsVars, scoringVars>>

matchVars == <<heap, map_name, match_events, ended_round_reports,
               ongoing_round, started, ended>>

\* MatchInProgress._team_composition: the reference of the match roster
team_composition == 1

EmptyRoster == [t \in RosterTeams |-> <<>>]

\* RoundReport.__init__: copies and freezes the events and the roster
RoundReport(start_time, end_time, round_events, composition, winner_team) ==
    [start_time |-> start_time, end_time |-> end_time, events |-> round_events,
     team_composition |-> composition, winner_team |-> winner_team]

\* no log is being parsed
ParserIdle ==
    /\ parser_pc = "parsing"
    /\ lines = <<>>
    /\ events = <<>>

\* no statistics are being folded
StatsIdle ==
    /\ table = <<>>
    /\ stats_round = RoundReport(1, 1, <<>>, EmptyRoster, None)
    /\ folded = <<>>

\* no second replay, no table of scores and no rating is being computed
ScoringIdle ==
    /\ matches = <<>>
    /\ stats_table = <<>>
    /\ glicko_scorer = <<>>
    /\ win_rate_scorer = <<>>

\* MatchInProgress.__init__
NewMatch ==
    /\ pc = "running"
    /\ processed = <<>>
    /\ heap = (team_composition :> EmptyRoster)
    /\ map_name = ""
    /\ match_events = <<>>
    /\ ended_round_reports = <<>>
    /\ ongoing_round = <<>>
    /\ started = FALSE
    /\ ended = FALSE
    /\ result = <<>>

Init ==
    /\ NewMatch
    /\ max_events = MaxEvents
    /\ ParserIdle
    /\ ScoringIdle
    /\ StatsIdle

(***************************************************************************)
(* RoundInProgress and RoundReport.                                        *)
(***************************************************************************)
\* a wrong RoundInProgress: copies the roster it is given
RoundInProgress_snapshot(h, ref) ==
    LET new == Cardinality(DOMAIN h) + 1
    IN  [heap |-> h @@ (new :> h[ref]),
         round |-> [events |-> <<>>, ended |-> FALSE,
                    team_composition |-> new, winner_team |-> None]]

\* RoundInProgress.__init__: keeps the reference of the roster it is given
RoundInProgress(h, ref) ==
    [heap |-> h,
     round |-> [events |-> <<>>, ended |-> FALSE,
                team_composition |-> ref, winner_team |-> None]]

\* a wrong get_round_report: the first and the last event are swapped
get_round_report_swapped(round, h) ==
    RoundReport(round.events[Len(round.events)].timestamp,
                round.events[1].timestamp,
                round.events, h[round.team_composition], round.winner_team)

\* RoundInProgress.get_round_report (the caller has set _ended)
get_round_report(round, h) ==
    RoundReport(round.events[1].timestamp,
                round.events[Len(round.events)].timestamp,
                round.events, h[round.team_composition], round.winner_team)

\* a wrong record_event: the event is put in front of the list
record_event_front(round, event) == [round EXCEPT !.events = <<event>> \o @]

\* RoundInProgress.record_event
record_event(round, event) == [round EXCEPT !.events = Append(@, event)]

(***************************************************************************)
(* MatchInProgress: the roster.                                            *)
(***************************************************************************)
\* a wrong remove_player_if_present: looks in the CT roster only
remove_player_if_present_ct(roster, player) ==
    [roster EXCEPT ![CT_team] =
        IF PlayerIn(player, @) THEN ListRemove(@, player) ELSE @]

\* MatchInProgress.remove_player_if_present
remove_player_if_present(roster, player) ==
    [t \in RosterTeams |->
        IF PlayerIn(player, roster[t]) THEN ListRemove(roster[t], player)
        ELSE roster[t]]

\* a wrong add_player_to_team: adds without removing first
add_player_to_team_keep(roster, team, player) ==
    IF team \in DOMAIN roster
    THEN [roster EXCEPT ![team] = Append(@, player)]
    ELSE roster

\* MatchInProgress.add_player_to_team
add_player_to_team(roster, team, player) ==
    LET removed == remove_player_if_present(roster, player)
    IN  IF team \in DOMAIN removed
        THEN [removed EXCEPT ![team] = Append(@, player)]
        ELSE removed

(***************************************************************************)
(* The factory loop takes one event: event.impact_match(match).            *)
(***************************************************************************)
Taking(e) ==
    /\ pc = "running"
    /\ Len(processed) < max_events
    /\ processed' = Append(processed, e)
    /\ result' = result
    /\ UNCHANGED <<max_events, parserVars, statsVars, scoringVars>>

\* a wrong factory loop: the exception is swallowed, the loop goes on
Abort_swallowed ==
    /\ pc' = pc
    /\ UNCHANGED matchVars

\* an assertion fails: the exception leaves the factory, nothing is returned
Abort ==
    /\ pc' = "aborted_in_loop"
    /\ UNCHANGED matchVars

\* a wrong record_match_event: nothing is recorded once the match has ended
record_match_event_until_end(recorded, event) ==
    IF ended THEN recorded ELSE Append(recorded, event)

\* MatchInProgress.record_match_event
record_match_event(recorded, event) == Append(recorded, event)

\* a wrong MapLoadingEvent.impact_match: the first map name stays
MapLoadingEvent_first(e) ==
    /\ Taking(e)
    /\ map_name' = IF map_name = "" THEN e.map_name ELSE map_name
    /\ match_events' = record_match_event(match_events, e)
    /\ pc' = pc
    /\ UNCHANGED <<heap, ended_round_reports, ongoing_round, started, ended>>

\* MapLoadingEvent.impact_match
MapLoadingEvent(e) ==
    /\ Taking(e)
    /\ map_name' = e.map_name
    /\ match_events' = record_match_event(match_events, e)
    /\ pc' = pc
    /\ UNCHANGED <<heap, ended_round_reports, ongoing_round, started, ended>>

\* a wrong start_new_round: the assertion is left out
start_new_round_unchecked(round) == TRUE

\* the assertion of MatchInProgress.start_new_round
start_new_round_assert(round) == round # <<>> => round[1].ended

\* RoundStartEvent.impact_match: start_new_round, then record_round_event
RoundStartEvent(e) ==
    /\ Taking(e)
    /\ IF ~start_new_round_assert(ongoing_round)
       THEN Abort
       ELSE LET new == RoundInProgress(heap, team_composition)
            IN  /\ heap' = new.heap
                /\ ongoing_round' = <<record_event(new.round, e)>>
                /\ pc' = pc
                /\ UNCHANGED <<map_name, match_events, ended_round_reports,
                               started, ended>>

\* a wrong end_current_round: a round closed again replaces its report
end_current_round_replace(round, reports, h) ==
    LET closed == [round EXCEPT !.ended = TRUE]
    IN  [round |-> closed,
         reports |-> IF round.ended
                     THEN [reports EXCEPT ![Len(reports)] = get_round_report(closed, h)]
                     ELSE Append(reports, get_round_report(closed, h))]

\* a wrong end_current_round: the report is put in front of the list
end_current_round_prepend(round, reports, h) ==
    LET closed == [round EXCEPT !.ended = TRUE]
    IN  [round |-> closed,
         reports |-> <<get_round_report(closed, h)>> \o reports]

\* MatchInProgress.end_current_round (the caller has checked _ongoing_round)
end_current_round(round, reports, h) ==
    LET closed == [round EXCEPT !.ended = TRUE]
    IN  [round |-> closed,
         reports |-> Append(reports, get_round_report(closed, h))]

\* RoundEndEvent.impact_match: record_round_event, then end_current_round
RoundEndEvent(e) ==
    /\ Taking(e)
    /\ IF ongoing_round = <<>>
       THEN Abort
       ELSE LET after == end_current_round(record_event(ongoing_round[1], e),
                                           ended_round_reports, heap)
            IN  /\ ongoing_round' = <<after.round>>
                /\ ended_round_reports' = after.reports
                /\ pc' = pc
                /\ UNCHANGED <<heap, map_name, match_events, started, ended>>

\* AttackEvent / KillEvent .impact_match: impact_current_round_with
RoundScoped(e) ==
    /\ Taking(e)
    /\ IF ongoing_round = <<>>
       THEN Abort
       ELSE /\ ongoing_round' = <<record_event(ongoing_round[1], e)>>
            /\ pc' = pc
            /\ UNCHANGED <<heap, map_name, match_events, ended_round_reports,
                           started, ended>>

AttackEvent(e) == RoundScoped(e)

KillEvent(e) == RoundScoped(e)

\* a wrong set_winner_team: the first winner of a round stays
set_winner_team_once(round, team) ==
    IF round.winner_team = None THEN [round EXCEPT !.winner_team = team] ELSE round

\* RoundInProgress.set_winner_team
set_winner_team(round, team) == [round EXCEPT !.winner_team = team]

\* TeamWinEvent.impact_match: set_winner_team, then record_event
TeamWinEvent(e) ==
    /\ Taking(e)
    /\ IF ongoing_round = <<>>
       THEN Abort
       ELSE /\ ongoing_round' =
                  <<record_event(set_winner_team(ongoing_round[1], e.team), e)>>
            /\ pc' = pc
            /\ UNCHANGED <<heap, map_name, match_events, ended_round_reports,
                           started, ended>>

\* a wrong MatchStartedEvent.impact_match: starting re-opens an ended match
MatchStartedEvent_reopens(e) ==
    /\ Taking(e)
    /\ match_events' = record_match_event(match_events, e)
    /\ started' = TRUE
    /\ ended' = FALSE
    /\ pc' = pc
    /\ UNCHANGED <<heap, map_name, ended_round_reports, ongoing_round>>

\* MatchStartedEvent.impact_match
MatchStartedEvent(e) ==
    /\ Taking(e)
    /\ match_events' = record_match_event(match_events, e)
    /\ started' = TRUE
    /\ pc' = pc
    /\ UNCHANGED <<heap, map_name, ended_round_reports, ongoing_round, ended>>

\* MatchEndEvent.impact_match
MatchEndEvent(e) ==
    /\ Taking(e)
    /\ match_events' = record_match_event(match_events, e)
    /\ ended' = TRUE
    /\ pc' = pc
    /\ UNCHANGED <<heap, map_name, ended_round_reports, ongoing_round, started>>

\* PlayerJoinsTeamEvent.impact_match
PlayerJoinsTeamEvent(e) ==
    /\ Taking(e)
    /\ match_events' = record_match_event(match_events, e)
    /\ heap' = [heap EXCEPT ![team_composition] =
                   add_player_to_team(@, e.team, e.player)]
    /\ pc' = pc
    /\ UNCHANGED <<map_name, ended_round_reports, ongoing_round, started, ended>>

\* PlayerDisconnectsEvent.impact_match
PlayerDisconnectsEvent(e) ==
    /\ Taking(e)
    /\ heap' = [heap EXCEPT ![team_composition] =
                   remove_player_if_present(@, e.player)]
    /\ pc' = pc
    /\ UNCHANGED <<map_name, match_events, ended_round_reports, ongoing_round,
                   started, ended>>

\* ServerEvent.impact_match: ignored
ServerEvent(e) ==
    /\ Taking(e)
    /\ pc' = pc
    /\ UNCHANGED matchVars

(***************************************************************************)
(* The end of the event list: what the factory returns.                    *)
(***************************************************************************)
\* MatchReport.__init__
MatchReport(recorded, name, rounds) ==
    [match_events |-> recorded, map_name |-> name, round_reports |-> rounds]

\* a wrong get_match_report guard: no assertion at all
get_match_report_allowed_always == TRUE

\* the assertion of MatchInProgress.get_match_report
get_match_report_allowed == ended \/ ~started

\* MatchReportFactory.completed_match_report, after its loop
completed_match_report ==
    /\ pc = "running"
    /\ IF get_match_report_allowed
       THEN /\ pc' = "returned"
            /\ result' = <<[call |-> "completed_match_report",
                            report |-> MatchReport(match_events, map_name,
                                                   ended_round_reports),
                            rounds |-> ended_round_reports]>>
       ELSE /\ pc' = "aborted_in_report"
            /\ result' = result
    /\ UNCHANGED <<processed, matchVars, max_events, parserVars, statsVars,
                   scoringVars>>

\* a wrong get_ended_round_reports: counts the round in progress too
get_ended_round_reports_open(reports, round, h) ==
    IF round # <<>> /\ ~round[1].ended
    THEN Append(reports, get_round_report(round[1], h))
    ELSE reports

\* MatchInProgress.get_ended_round_reports
get_ended_round_reports(reports, round, h) == reports

\* MatchReportFactory.incomplete_match_round_reports, after its loop
incomplete_match_round_reports ==
    /\ pc = "running"
    /\ pc' = "returned"
    /\ result' = <<[call |-> "incomplete_match_round_reports",
                    report |-> MatchReport(<<>>, "", <<>>),
                    rounds |-> get_ended_round_reports(ended_round_reports,
                                                       ongoing_round, heap)]>>
    /\ UNCHANGED <<processed, matchVars, max_events, parserVars, statsVars,
                   scoringVars>>

Next ==
    \/ \E e \in MapLoadingEvents : MapLoadingEvent(e)
    \/ \E e \in RoundStartEvents : RoundStartEvent(e)
    \/ \E e \in RoundEndEvents : RoundEndEvent(e)
    \/ \E e \in AttackEvents : AttackEvent(e)
    \/ \E e \in KillEvents : KillEvent(e)
    \/ \E e \in TeamWinEvents : TeamWinEvent(e)
    \/ \E e \in MatchStartedEvents : MatchStartedEvent(e)
    \/ \E e \in MatchEndEvents : MatchEndEvent(e)
    \/ \E e \in PlayerJoinsTeamEvents : PlayerJoinsTeamEvent(e)
    \/ \E e \in PlayerDisconnectsEvents : PlayerDisconnectsEvent(e)
    \/ \E e \in ServerEvents : ServerEvent(e)
    \/ completed_match_report
    \/ incomplete_match_round_reports

Spec == Init /\ [][Next]_vars

NextRoster ==
    \/ \E e \in RosterRoundStarts : RoundStartEvent(e)
    \/ \E e \in RosterRoundEnds : RoundEndEvent(e)
    \/ \E e \in RosterJoins : PlayerJoinsTeamEvent(e)
    \/ \E e \in RosterDisconnects : PlayerDisconnectsEvent(e)
    \/ incomplete_match_round_reports

SpecRoster == Init /\ [][NextRoster]_vars

(***************************************************************************)
(* The replay of rounds alone (SpecRounds): one more event, and only the   *)
(* events that impact a round.                                             *)
(***************************************************************************)
InitRounds ==
    /\ NewMatch
    /\ max_events = MaxEvents + 1
    /\ ParserIdle
    /\ ScoringIdle
    /\ StatsIdle

NextRounds ==
    \/ \E e \in RosterRoundStarts : RoundStartEvent(e)
    \/ \E e \in RosterRoundEnds : RoundEndEvent(e)
    \/ \E e \in AttackEvents : AttackEvent(e)
    \/ \E e \in KillEvents : KillEvent(e)
    \/ \E e \in TeamWinEvents : TeamWinEvent(e)
    \/ incomplete_match_round_reports

SpecRounds == InitRounds /\ [][NextRounds]_vars

(***************************************************************************)
(* LogParser.get_events (parser.py).  A line is what the regular           *)
(* expressions see of it: the event patterns that match it, and its        *)
(* timestamp preamble: "none" when `L MM/DD/YYYY - HH:MM:SS:` is not found, *)
(* "invalid" when it is found and is no date, else "valid".                *)
(***************************************************************************)
\* Event.__subclasses__(): the order in which the patterns are tried
EventOrder ==
    <<"MapLoading", "RoundStart", "RoundEnd", "Attack", "Kill", "MatchStarted",
      "MatchEnd", "PlayerJoinsTeam", "PlayerDisconnects", "TeamWin", "Server">>

Line(preamble, time, patterns) ==
    [preamble |-> preamble, time |-> time, patterns |-> patterns]

\* chatter, a round start, a server line, and a kill by a player called Server
LineTexts == {{}, {"RoundStart"}, {"Server"}, {"Kill", "Server"}}

ParserLines ==
    {Line("valid", t, text) : t \in Times, text \in LineTexts}
        \cup {Line(preamble, 1, text) : preamble \in {"none", "invalid"},
                                        text \in LineTexts}

\* the first pattern of the mapping that matches the line
FirstMatch(line) ==
    EventOrder[CHOOSE i \in 1 .. Len(EventOrder) :
                   /\ EventOrder[i] \in line.patterns
                   /\ \A j \in 1 .. i - 1 : EventOrder[j] \notin line.patterns]

\* a wrong from_log_line: a missing timestamp is reported as UnhandledLine
from_log_line_unhandled(line) ==
    IF line.patterns = {} \/ line.preamble = "none"
    THEN [raised |-> "UnhandledLine", event |-> <<>>]
    ELSE IF line.preamble = "invalid"
    THEN [raised |-> "ValueError", event |-> <<>>]
    ELSE [raised |-> "",
          event |-> <<[kind |-> FirstMatch(line), timestamp |-> line.time]>>]

\* EventFactory.from_log_line, with _get_timestamp_from_line
from_log_line(line) ==
    IF line.patterns = {}
    THEN [raised |-> "UnhandledLine", event |-> <<>>]
    ELSE IF line.preamble = "none"
    THEN [raised |-> "Exception", event |-> <<>>]
    ELSE IF line.preamble = "invalid"
    THEN [raised |-> "ValueError", event |-> <<>>]
    ELSE [raised |-> "",
          event |-> <<[kind |-> FirstMatch(line), timestamp |-> line.time]>>]

\* a wrong get_events: no except clause
get_events_catches_nothing(raised) == FALSE

\* the except clause of LogParser.get_events
get_events_catches(raised) == raised = "UnhandledLine"

\* one turn of the loop of LogParser.get_events
ParseLine(line) ==
    /\ parser_pc = "parsing"
    /\ Len(lines) < MaxLines
    /\ lines' = Append(lines, line)
    /\ LET parsed == from_log_line(line)
       IN  IF parsed.raised = ""
           THEN /\ events' = Append(events, parsed.event[1])
                /\ parser_pc' = parser_pc
           ELSE IF get_events_catches(parsed.raised)
           THEN UNCHANGED <<events, parser_pc>>
           ELSE /\ parser_pc' = parsed.raised
                /\ events' = events
    /\ UNCHANGED <<replayVars, statsVars, scoringVars>>

\* LogParser.get_events: return events
get_events ==
    /\ parser_pc = "parsing"
    /\ parser_pc' = "returned"
    /\ UNCHANGED <<lines, events, replayVars, statsVars, scoringVars>>

NextParser ==
    \/ \E line \in ParserLines : ParseLine(line)
    \/ get_events

SpecParser == Init /\ [][NextParser]_vars

(***************************************************************************)
(* PlayerStats (report.py) and the events' impact_player_stats (event.py), *)
(* folded into a table keyed by Player (MatchReport.add_to_player_stats_   *)
(* table): SpecStats.                                                      *)
(***************************************************************************)
\* PlayerStats(): all counters 0, no weapon in the defaultdict
NoWeaponDamage == [w \in {} |-> 0]

PlayerStats ==
    [damage_inflicted |-> 0, damage_received |-> 0, kills |-> 0, deaths |-> 0,
     rounds_won |-> 0, rounds_lost |-> 0,
     damage_inflicted_by_weapon |-> NoWeaponDamage]

\* damage_inflicted_by_weapon[weapon] += damage, on a defaultdict(int)
AddWeaponDamage(by_weapon, weapon, damage) ==
    IF weapon \in DOMAIN by_weapon
    THEN [by_weapon EXCEPT ![weapon] = @ + damage]
    ELSE by_weapon @@ (weapon :> damage)

\* RoundReport.get_all_players
get_all_players(round) ==
    round.team_composition[CT_team] \o round.team_composition[Terrorist_team]

\* a wrong AttackEvent.impact_player_stats: the victim is an elif
AttackEvent_impact_player_stats_elif(e, player, stats, round) ==
    IF PlayerEq(player, e.attacker)
    THEN [stats EXCEPT
             !.damage_inflicted = @ + e.damage,
             !.damage_inflicted_by_weapon = AddWeaponDamage(@, e.weapon, e.damage)]
    ELSE IF PlayerEq(player, e.victim)
    THEN [stats EXCEPT !.damage_received = @ + e.damage]
    ELSE stats

\* a wrong AttackEvent.impact_player_stats: the weapon's bucket is left out
AttackEvent_impact_player_stats_total(e, player, stats, round) ==
    LET inflicted ==
            IF PlayerEq(player, e.attacker)
            THEN [stats EXCEPT !.damage_inflicted = @ + e.damage]
            ELSE stats
    IN  IF PlayerEq(player, e.victim)
        THEN [inflicted EXCEPT !.damage_received = @ + e.damage]
        ELSE inflicted

\* AttackEvent.impact_player_stats
AttackEvent_impact_player_stats(e, player, stats, round) ==
    LET inflicted ==
            IF PlayerEq(player, e.attacker)
            THEN [stats EXCEPT
                     !.damage_inflicted = @ + e.damage,
                     !.damage_inflicted_by_weapon =
                         AddWeaponDamage(@, e.weapon, e.damage)]
            ELSE stats
    IN  IF PlayerEq(player, e.victim)
        THEN [inflicted EXCEPT !.damage_received = @ + e.damage]
        ELSE inflicted

\* a wrong KillEvent.impact_player_stats: attacker and victim are swapped
KillEvent_impact_player_stats_swapped(e, player, stats, round) ==
    LET killed ==
            IF PlayerEq(player, e.victim)
            THEN [stats EXCEPT !.kills = @ + 1] ELSE stats
    IN  IF PlayerEq(player, e.attacker)
        THEN [killed EXCEPT !.deaths = @ + 1] ELSE killed

\* KillEvent.impact_player_stats
KillEvent_impact_player_stats(e, player, stats, round) ==
    LET killed ==
            IF PlayerEq(player, e.attacker)
            THEN [stats EXCEPT !.kills = @ + 1] ELSE stats
    IN  IF PlayerEq(player, e.victim)
        THEN [killed EXCEPT !.deaths = @ + 1] ELSE killed

\* a wrong TeamWinEvent.impact_player_stats: whoever did not win has lost
TeamWinEvent_impact_player_stats_else(e, player, stats, round) ==
    IF PlayerIn(player, round.team_composition[e.team])
    THEN [stats EXCEPT !.rounds_won = @ + 1]
    ELSE [stats EXCEPT !.rounds_lost = @ + 1]

\* TeamWinEvent.impact_player_stats
TeamWinEvent_impact_player_stats(e, player, stats, round) ==
    IF PlayerIn(player, round.team_composition[e.team])
    THEN [stats EXCEPT !.rounds_won = @ + 1]
    ELSE IF PlayerIn(player, get_all_players(round))
    THEN [stats EXCEPT !.rounds_lost = @ + 1]
    ELSE stats

\* Event.impact_player_stats: pass
Event_impact_player_stats(e, player, stats, round) == stats

\* event.impact_player_stats(player, stats, round), by the class of the event
impact_player_stats(e, player, stats, round) ==
    CASE e.kind = "Attack" -> AttackEvent_impact_player_stats(e, player, stats, round)
      [] e.kind = "Kill" -> KillEvent_impact_player_stats(e, player, stats, round)
      [] e.kind = "TeamWin" -> TeamWinEvent_impact_player_stats(e, player, stats, round)
      [] OTHER -> Event_impact_player_stats(e, player, stats, round)

\* the entry of a dict keyed by Player: same hash and equal key
TableIndex(entries, player) ==
    {i \in 1 .. Len(entries) :
        /\ PlayerHash(entries[i].key) = PlayerHash(player)
        /\ PlayerEq(entries[i].key, player)}

\* table[player] on a defaultdict(PlayerStats): a missing key is inserted
TableGet(entries, player) ==
    IF TableIndex(entries, player) # {}
    THEN [entries |-> entries,
          index |-> CHOOSE i \in TableIndex(entries, player) :
                        \A j \in TableIndex(entries, player) : i <= j]
    ELSE [entries |-> Append(entries, [key |-> player, value |-> PlayerStats]),
          index |-> Len(entries) + 1]

\* stats = table[player]; event.impact_player_stats(player, stats, round)
Fold(player, e) ==
    /\ Len(folded) < MaxFolds
    /\ folded' = Append(folded, [player |-> player, event |-> e])
    /\ LET got == TableGet(table, player)
       IN  table' = [got.entries EXCEPT ![got.index].value =
                        impact_player_stats(e, player, @, stats_round)]
    /\ UNCHANGED <<stats_round, replayVars, parserVars, scoringVars>>

FoldAttack(player, e) ==
    /\ e.kind = "Attack"
    /\ Fold(player, e)

FoldKill(player, e) ==
    /\ e.kind = "Kill"
    /\ Fold(player, e)

FoldTeamWin(player, e) ==
    /\ e.kind = "TeamWin"
    /\ Fold(player, e)

FoldOther(player, e) ==
    /\ e.kind \notin {"Attack", "Kill", "TeamWin"}
    /\ Fold(player, e)

\* the inputs of SpecStats: the players asked about, the round, the events
StatsPlayers == {PlayerA, PlayerA2, PlayerB}

StatsRosters ==
    {[CT |-> <<PlayerA2>>, TERRORIST |-> <<PlayerB>>],
     [CT |-> <<PlayerB>>, TERRORIST |-> <<>>],
     [CT |-> <<PlayerA, PlayerB>>, TERRORIST |-> <<>>],
     [CT |-> <<>>, TERRORIST |-> <<>>]}

StatsRounds == {RoundReport(1, 1, <<>>, roster, None) : roster \in StatsRosters}

StatsAttacks ==
    {AttackEvent_(1, PlayerA, PlayerB, "mp5navy", 13),
     AttackEvent_(1, PlayerA2, PlayerB, "usp", 21),
     AttackEvent_(1, PlayerB, PlayerA, "usp", 21),
     AttackEvent_(1, PlayerA, PlayerA2, "hegrenade", 13)}

StatsKills ==
    {KillEvent_(1, PlayerA, PlayerB, "mp5navy"),
     KillEvent_(1, PlayerB, PlayerA2, "usp"),
     KillEvent_(1, PlayerA2, PlayerA, "hegrenade")}

StatsTeamWins == TeamWinEvents

StatsOthers == {RoundStartEvent_(1)}

InitStats ==
    /\ NewMatch
    /\ max_events = MaxEvents
    /\ ParserIdle
    /\ ScoringIdle
    /\ table = <<>>
    /\ folded = <<>>
    /\ stats_round \in StatsRounds

NextStats ==
    \/ \E player \in StatsPlayers, e \in StatsAttacks : FoldAttack(player, e)
    \/ \E player \in StatsPlayers, e \in StatsKills : FoldKill(player, e)
    \/ \E player \in StatsPlayers, e \in StatsTeamWins : FoldTeamWin(player, e)
    \/ \E player \in StatsPlayers, e \in StatsOthers : FoldOther(player, e)

SpecStats == InitStats /\ [][NextStats]_vars

(***************************************************************************)
(* RoundReport and MatchReport (report.py): what a report answers.         *)
(***************************************************************************)
\* RoundReport.add_to_player_stats: every event of the round, in order
RoundReport_add_to_player_stats(round, player, stats) ==
    LET after[i \in 0 .. Len(round.events)] ==
            IF i = 0 THEN stats
            ELSE impact_player_stats(round.events[i], player, after[i - 1], round)
    IN  after[Len(round.events)]

\* RoundReport.get_player_stats: asserts that the player is in the round
RoundReport_get_player_stats(round, player) ==
    IF PlayerIn(player, get_all_players(round))
    THEN [raised |-> "",
          stats |-> RoundReport_add_to_player_stats(round, player, PlayerStats)]
    ELSE [raised |-> "AssertionError", stats |-> PlayerStats]

\* a wrong MatchReport.add_to_player_stats: only the last round is folded
MatchReport_add_to_player_stats_last(report, player, stats) ==
    IF report.round_reports = <<>> THEN stats
    ELSE RoundReport_add_to_player_stats(
             report.round_reports[Len(report.round_reports)], player, stats)

\* MatchReport.add_to_player_stats: every round, in order, on the same stats
MatchReport_add_to_player_stats(report, player, stats) ==
    LET after[i \in 0 .. Len(report.round_reports)] ==
            IF i = 0 THEN stats
            ELSE RoundReport_add_to_player_stats(report.round_reports[i], player,
                                                 after[i - 1])
    IN  after[Len(report.round_reports)]

\* MatchReport.get_player_stats
MatchReport_get_player_stats(report, player) ==
    MatchReport_add_to_player_stats(report, player, PlayerStats)

\* MatchReport.get_all_players: the steam ids, Players being one per steam id
MatchReport_get_all_players(report) ==
    UNION {{get_all_players(report.round_reports[i])[j].steam_id :
               j \in 1 .. Len(get_all_players(report.round_reports[i]))} :
           i \in 1 .. Len(report.round_reports)}

\* Event.is_attack: True for AttackEvent and for KillEvent
is_attack(e) == e.kind \in {"Attack", "Kill"}

\* Event.is_kill: True for KillEvent
is_kill(e) == e.kind = "Kill"

\* a wrong _all_round_events: the last round first
all_round_events_reversed(report) ==
    LET n == Len(report.round_reports)
        upto[i \in 0 .. n] ==
            IF i = 0 THEN <<>>
            ELSE upto[i - 1] \o report.round_reports[n + 1 - i].events
    IN  upto[n]

\* MatchReport._all_round_events: round after round, each in recorded order
all_round_events(report) ==
    LET upto[i \in 0 .. Len(report.round_reports)] ==
            IF i = 0 THEN <<>>
            ELSE upto[i - 1] \o report.round_reports[i].events
    IN  upto[Len(report.round_reports)]

NoEvent == [kind |-> "None"]

\* the loop of get_first_attack and get_first_kill, and the raise after it
first_event(found, message) ==
    IF found = <<>>
    THEN [raised |-> "Exception", message |-> message, event |-> NoEvent]
    ELSE [raised |-> "", message |-> "", event |-> found[1]]

\* MatchReport.get_first_attack
get_first_attack(report) ==
    first_event(SelectSeq(all_round_events(report), is_attack),
                "There's no blood in this game")

\* MatchReport.get_first_kill
get_first_kill(report) ==
    first_event(SelectSeq(all_round_events(report), is_kill),
                "There's no kills in this game")

\* MatchReport.get_map_name
get_map_name(report) == report.map_name

\* a wrong get_start_time: the last match event
get_start_time_last(report) ==
    IF report.match_events = <<>> THEN [raised |-> "IndexError", time |-> 0]
    ELSE [raised |-> "",
          time |-> report.match_events[Len(report.match_events)].timestamp]

\* MatchReport.get_start_time: _match_events[0] of an empty list raises
get_start_time(report) ==
    IF report.match_events = <<>> THEN [raised |-> "IndexError", time |-> 0]
    ELSE [raised |-> "", time |-> report.match_events[1].timestamp]

\* MatchReport.get_end_time: _match_events[-1] of an empty list raises
get_end_time(report) ==
    IF report.match_events = <<>> THEN [raised |-> "IndexError", time |-> 0]
    ELSE [raised |-> "",
          time |-> report.match_events[Len(report.match_events)].timestamp]

\* a wrong get_rounds_by_winner_team: a round counts once per TeamWin event
get_rounds_by_winner_team_events(report) ==
    LET Wins(team, round) ==
            LET WonBy(e) == e.kind = "TeamWin" /\ e.team = team
            IN  [k \in 1 .. Len(SelectSeq(round.events, WonBy)) |-> round]
        upto[i \in 0 .. Len(report.round_reports)] ==
            IF i = 0 THEN [team \in RosterTeams |-> <<>>]
            ELSE [team \in RosterTeams |->
                     upto[i - 1][team] \o Wins(team, report.round_reports[i])]
    IN  upto[Len(report.round_reports)]

\* MatchReport.get_rounds_by_winner_team: a round without a winner is skipped
get_rounds_by_winner_team(report) ==
    LET upto[i \in 0 .. Len(report.round_reports)] ==
            IF i = 0 THEN [team \in RosterTeams |-> <<>>]
            ELSE IF report.round_reports[i].winner_team # None
            THEN [upto[i - 1] EXCEPT ![report.round_reports[i].winner_team] =
                     Append(@, report.round_reports[i])]
            ELSE upto[i - 1]
    IN  upto[Len(report.round_reports)]

\* MatchReport.get_scores
get_scores(report) ==
    [team \in DOMAIN get_rounds_by_winner_team(report) |->
        Len(get_rounds_by_winner_team(report)[team])]

\* MatchReport.get_team_score
get_team_score(report, team) == get_scores(report)[team]

(***************************************************************************)
(* The replay that feeds the reports (SpecReports): two players, one on a  *)
(* roster, two full rounds with attacks, kills and winners.                *)
(***************************************************************************)
ReportJoins == {PlayerJoinsTeamEvent_(1, PlayerA, CT_team)}

InitReports ==
    /\ NewMatch
    /\ max_events = MaxEvents + 2
    /\ ParserIdle
    /\ ScoringIdle
    /\ StatsIdle

NextReports ==
    \/ \E e \in ReportJoins : PlayerJoinsTeamEvent(e)
    \/ \E e \in RosterRoundStarts : RoundStartEvent(e)
    \/ \E e \in RosterRoundEnds : RoundEndEvent(e)
    \/ \E e \in AttackEvents : AttackEvent(e)
    \/ \E e \in KillEvents : KillEvent(e)
    \/ \E e \in TeamWinEvents : TeamWinEvent(e)
    \/ completed_match_report

SpecReports == InitReports /\ [][NextReports]_vars

(***************************************************************************)
(* The replay of a log with two maps and events of every kind at two times *)
(* (SpecMatchLog), for the map name and the times of a match.              *)
(***************************************************************************)
LogMapLoadings ==
    {MapLoadingEvent_(1, "awp_india"), MapLoadingEvent_(2, "de_dust2")}

LogMatchStarts == {MatchStartedEvent_(1)}

LogMatchEnds == {MatchEndEvent_(2)}

LogJoins == {PlayerJoinsTeamEvent_(2, PlayerA, CT_team)}

LogDisconnects == {PlayerDisconnectsEvent_(2, PlayerB)}

LogServers == {ServerEvent_(1)}

LogRoundStarts == {RoundStartEvent_(2)}

LogRoundEnds == {RoundEndEvent_(1)}

LogAttacks == {AttackEvent_(2, PlayerA, PlayerB, "awp", 13)}

LogKills == {KillEvent_(2, PlayerA, PlayerB, "awp")}

LogTeamWins == {TeamWinEvent_(2, CT_team)}

NextMatchLog ==
    \/ \E e \in LogMapLoadings : MapLoadingEvent(e)
    \/ \E e \in LogMatchStarts : MatchStartedEvent(e)
    \/ \E e \in LogMatchEnds : MatchEndEvent(e)
    \/ \E e \in LogJoins : PlayerJoinsTeamEvent(e)
    \/ \E e \in LogDisconnects : PlayerDisconnectsEvent(e)
    \/ \E e \in LogServers : ServerEvent(e)
    \/ \E e \in LogRoundStarts : RoundStartEvent(e)
    \/ \E e \in LogRoundEnds : RoundEndEvent(e)
    \/ \E e \in LogAttacks : AttackEvent(e)
    \/ \E e \in LogKills : KillEvent(e)
    \/ \E e \in LogTeamWins : TeamWinEvent(e)
    \/ completed_match_report

SpecMatchLog == Init /\ [][NextMatchLog]_vars

(***************************************************************************)
(* The replay of rounds with two attacks and two kills that differ         *)
(* (SpecFirst), for the first attack and the first kill of a match.        *)
(***************************************************************************)
FirstAttacks ==
    {AttackEvent_(1, PlayerA, PlayerB, "awp", 13),
     AttackEvent_(2, PlayerB, PlayerA, "awp", 13)}

FirstKills ==
    {KillEvent_(1, PlayerA, PlayerB, "awp"),
     KillEvent_(2, PlayerB, PlayerA, "awp")}

NextFirst ==
    \/ \E e \in RosterRoundStarts : RoundStartEvent(e)
    \/ \E e \in RosterRoundEnds : RoundEndEvent(e)
    \/ \E e \in FirstAttacks : AttackEvent(e)
    \/ \E e \in FirstKills : KillEvent(e)
    \/ completed_match_report

SpecFirst == InitReports /\ [][NextFirst]_vars

(***************************************************************************)
(* Two logs replayed side by side (SpecSideBySide): two MatchInProgress    *)
(* objects in one heap, their events interleaved in any order.             *)
(***************************************************************************)
\* a wrong MatchInProgress.__init__: one roster dictionary for the class
MatchInProgress_shared(h) ==
    [heap |-> IF DOMAIN h = {} THEN (1 :> EmptyRoster) ELSE h,
     match |-> [pc |-> "running", processed |-> <<>>, map_name |-> "",
                match_events |-> <<>>, ended_round_reports |-> <<>>,
                team_composition |-> 1, ongoing_round |-> <<>>,
                started |-> FALSE, ended |-> FALSE, result |-> <<>>]]

\* MatchInProgress.__init__: new lists and a new roster dictionary
MatchInProgress(h) ==
    [heap |-> h @@ ((Cardinality(DOMAIN h) + 1) :> EmptyRoster),
     match |-> [pc |-> "running", processed |-> <<>>, map_name |-> "",
                match_events |-> <<>>, ended_round_reports |-> <<>>,
                team_composition |-> Cardinality(DOMAIN h) + 1,
                ongoing_round |-> <<>>,
                started |-> FALSE, ended |-> FALSE, result |-> <<>>]]

\* an assertion of the match fails: the exception leaves the factory
Raised(m, h) == [match |-> [m EXCEPT !.pc = "aborted_in_loop"], heap |-> h]

\* event.impact_match(match), by the class of the event
impact_match(m, h, e) ==
    CASE e.kind = "MapLoading" ->
           [match |-> [m EXCEPT !.map_name = e.map_name,
                                !.match_events = record_match_event(@, e)],
            heap |-> h]
      [] e.kind = "RoundStart" ->
           IF ~start_new_round_assert(m.ongoing_round) THEN Raised(m, h)
           ELSE LET new == RoundInProgress(h, m.team_composition)
                IN  [match |-> [m EXCEPT !.ongoing_round =
                                             <<record_event(new.round, e)>>],
                     heap |-> new.heap]
      [] e.kind = "RoundEnd" ->
           IF m.ongoing_round = <<>> THEN Raised(m, h)
           ELSE LET after == end_current_round(record_event(m.ongoing_round[1], e),
                                               m.ended_round_reports, h)
                IN  [match |-> [m EXCEPT !.ongoing_round = <<after.round>>,
                                         !.ended_round_reports = after.reports],
                     heap |-> h]
      [] e.kind \in {"Attack", "Kill"} ->
           IF m.ongoing_round = <<>> THEN Raised(m, h)
           ELSE [match |-> [m EXCEPT !.ongoing_round = <<record_event(@[1], e)>>],
                 heap |-> h]
      [] e.kind = "TeamWin" ->
           IF m.ongoing_round = <<>> THEN Raised(m, h)
           ELSE [match |-> [m EXCEPT !.ongoing_round =
                               <<record_event(set_winner_team(@[1], e.team), e)>>],
                 heap |-> h]
      [] e.kind = "MatchStarted" ->
           [match |-> [m EXCEPT !.match_events = record_match_event(@, e),
                                !.started = TRUE],
            heap |-> h]
      [] e.kind = "MatchEnd" ->
           [match |-> [m EXCEPT !.match_events = record_match_event(@, e),
                                !.ended = TRUE],
            heap |-> h]
      [] e.kind = "PlayerJoinsTeam" ->
           [match |-> [m EXCEPT !.match_events = record_match_event(@, e)],
            heap |-> [h EXCEPT ![m.team_composition] =
                         add_player_to_team(@, e.team, e.player)]]
      [] e.kind = "PlayerDisconnects" ->
           [match |-> m,
            heap |-> [h EXCEPT ![m.team_composition] =
                         remove_player_if_present(@, e.player)]]
      [] OTHER -> [match |-> m, heap |-> h]

\* one turn of the loop of completed_match_report
take_event(m, h, e) ==
    impact_match([m EXCEPT !.processed = Append(@, e)], h, e)

\* MatchInProgress.get_match_report, as the factory calls it after its loop
get_match_report(m) ==
    IF m.ended \/ ~m.started
    THEN [m EXCEPT !.pc = "returned",
                   !.result = <<MatchReport(m.match_events, m.map_name,
                                            m.ended_round_reports)>>]
    ELSE [m EXCEPT !.pc = "aborted_in_report"]

\* MatchReportFactory.incomplete_match_round_reports(events), as a function
\* of the event list: what is raised, and the list returned when nothing is
MatchReportFactory_incomplete_match_round_reports(log) ==
    LET after[k \in 0 .. Len(log)] ==
            IF k = 0 THEN MatchInProgress(<<>>)
            ELSE LET before == after[k - 1]
                 IN  IF before.match.pc # "running" THEN before
                     ELSE take_event(before.match, before.heap, log[k])
        last == after[Len(log)]
    IN  IF last.match.pc # "running"
        THEN [raised |-> "AssertionError", rounds |-> <<>>]
        ELSE [raised |-> "",
              rounds |-> get_ended_round_reports(last.match.ended_round_reports,
                                                 last.match.ongoing_round,
                                                 last.heap)]

SideBySideEvents ==
    {PlayerJoinsTeamEvent_(1, PlayerA, CT_team), RoundStartEvent_(1),
     RoundEndEvent_(1), TeamWinEvent_(1, CT_team), MatchStartedEvent_(1)}

oneMatchVars == <<pc, processed, map_name, match_events, ended_round_reports,
                  ongoing_round, started, ended, result, max_events>>

\* the factory of log i takes its next event
ImpactMatch(i, e) ==
    /\ matches[i].pc = "running"
    /\ Len(matches[i].processed) < MaxEventsEach
    /\ LET after == take_event(matches[i], heap, e)
       IN  /\ matches' = [matches EXCEPT ![i] = after.match]
           /\ heap' = after.heap
    /\ UNCHANGED <<oneMatchVars, parserVars, statsVars, stats_table, glicko_scorer,
                 win_rate_scorer>>

\* the factory of log i is past its loop
GetMatchReport(i) ==
    /\ matches[i].pc = "running"
    /\ matches' = [matches EXCEPT ![i] = get_match_report(@)]
    /\ UNCHANGED <<heap, oneMatchVars, parserVars, statsVars, stats_table,
                   glicko_scorer, win_rate_scorer>>

InitSideBySide ==
    /\ LET first == MatchInProgress(<<>>)
           second == MatchInProgress(first.heap)
       IN  /\ heap = second.heap
           /\ matches = <<first.match, second.match>>
    /\ pc = "running"
    /\ processed = <<>>
    /\ map_name = ""
    /\ match_events = <<>>
    /\ ended_round_reports = <<>>
    /\ ongoing_round = <<>>
    /\ started = FALSE
    /\ ended = FALSE
    /\ result = <<>>
    /\ max_events = MaxEvents
    /\ ParserIdle
    /\ StatsIdle
    /\ stats_table = <<>>
    /\ glicko_scorer = <<>>
    /\ win_rate_scorer = <<>>

NextSideBySide ==
    \/ \E i \in {1, 2}, e \in SideBySideEvents : ImpactMatch(i, e)
    \/ \E i \in {1, 2} : GetMatchReport(i)

SpecSideBySide == InitSideBySide /\ [][NextSideBySide]_vars

(***************************************************************************)
(* StatsTable.get_full_table (stats.py), SpecStatsTable.  A scorer is its   *)
(* stat_name and the players it gives a full score; a cell holds the       *)
(* position of the scorer that wrote it.                                   *)
(***************************************************************************)
StatNames == {"Kills", "Deaths"}

Scorers == [stat_name : StatNames, scores : SUBSET SteamIds]

ScorerLists == UNION {[1 .. n -> Scorers] : n \in 1 .. MaxScorers}

\* StatsTable.__init__, and the locals of get_full_table before its loop
StatsTable(scorers) ==
    [scorers |-> scorers, turn |-> 0, table |-> <<>>, stats |-> {},
     pc |-> "looping", filtered_table |-> <<>>]

\* table[player][stat_name] = value, on a defaultdict(dict)
SetCell(rows, player, stat_name, value) ==
    LET row == IF player \in DOMAIN rows THEN rows[player] ELSE <<>>
    IN  [q \in DOMAIN rows \cup {player} |->
            IF q = player
            THEN [n \in DOMAIN row \cup {stat_name} |->
                     IF n = stat_name THEN value ELSE row[n]]
            ELSE rows[q]]

\* for player, value in scores.items(): table[player][stat_name] = value
SetCells(rows, scorer, value) ==
    [q \in DOMAIN rows \cup scorer.scores |->
        IF q \in scorer.scores
        THEN SetCell(rows, q, scorer.stat_name, value)[q]
        ELSE rows[q]]

\* the rows get_full_table keeps
filtered_table(rows, scorers) ==
    [q \in {r \in DOMAIN rows : Cardinality(DOMAIN rows[r]) = Len(scorers)} |->
        rows[q]]

\* one turn of `for scorer in self._scorers`
ScorerTurn ==
    /\ stats_table.pc = "looping"
    /\ stats_table.turn < Len(stats_table.scorers)
    /\ LET scorer == stats_table.scorers[stats_table.turn + 1]
       IN  stats_table' =
               [stats_table EXCEPT
                   !.turn = @ + 1,
                   !.stats = @ \cup {scorer.stat_name},
                   !.table = SetCells(@, scorer, stats_table.turn + 1)]
    /\ UNCHANGED <<replayVars, parserVars, statsVars, matches, glicko_scorer,
                 win_rate_scorer>>

\* after the loop: the filter, and the return
FilterTable ==
    /\ stats_table.pc = "looping"
    /\ stats_table.turn = Len(stats_table.scorers)
    /\ stats_table' =
           [stats_table EXCEPT
               !.pc = "returned",
               !.filtered_table = filtered_table(stats_table.table,
                                                 stats_table.scorers)]
    /\ UNCHANGED <<replayVars, parserVars, statsVars, matches, glicko_scorer,
                 win_rate_scorer>>

InitStatsTable ==
    /\ NewMatch
    /\ max_events = MaxEvents
    /\ ParserIdle
    /\ StatsIdle
    /\ matches = <<>>
    /\ glicko_scorer = <<>>
    /\ win_rate_scorer = <<>>
    /\ stats_table \in {StatsTable(scorers) : scorers \in ScorerLists}

NextStatsTable == ScorerTurn \/ FilterTable

SpecStatsTable == InitStatsTable /\ [][NextStatsTable]_vars

(***************************************************************************)
(* GlickoScorer._calculate_rankings (scorer.py), SpecGlicko.  Of a rating  *)
(* only the calls made on it are kept: the contests it won and lost and    *)
(* the times it was told that its player did not compete.                  *)
(***************************************************************************)
\* PlayerRating(): a new rating
PlayerRating == [won |-> 0, lost |-> 0, did_not_compete |-> 0]

\* attacker_ranking.register_win(victim_ranking), on the ratings of a table
register_win(entries, winner, loser) ==
    [i \in DOMAIN entries |->
        [entries[i] EXCEPT
            !.value.won = IF i = winner THEN @ + 1 ELSE @,
            !.value.lost = IF i = loser THEN @ + 1 ELSE @]]

\* rankings[player].did_not_compete()
did_not_compete(rating) == [rating EXCEPT !.did_not_compete = @ + 1]

\* MatchReport.get_all_kills: the kills of the rounds, in order
get_all_kills(report) == SelectSeq(all_round_events(report), is_kill)

\* a wrong filter of the matches: one closed round is enough
valid_matches_one(match_reports) ==
    LET upto[i \in 0 .. Len(match_reports)] ==
            IF i = 0 THEN <<>>
            ELSE IF Len(match_reports[i].round_reports) >= 1
            THEN Append(upto[i - 1], i)
            ELSE upto[i - 1]
    IN  upto[Len(match_reports)]

\* valid_matches: the positions of the reports with at least 2 round reports
valid_matches(match_reports) ==
    LET upto[i \in 0 .. Len(match_reports)] ==
            IF i = 0 THEN <<>>
            ELSE IF Len(match_reports[i].round_reports) >= 2
            THEN Append(upto[i - 1], i)
            ELSE upto[i - 1]
    IN  upto[Len(match_reports)]

\* rankings[player] on a defaultdict(PlayerRating): a missing key is inserted
RankingsGet(entries, player) ==
    IF TableIndex(entries, player) # {}
    THEN [entries |-> entries,
          index |-> CHOOSE i \in TableIndex(entries, player) :
                        \A j \in TableIndex(entries, player) : i <= j]
    ELSE [entries |-> Append(entries, [key |-> player, value |-> PlayerRating]),
          index |-> Len(entries) + 1]

\* GlickoScorer._calculate_rankings: its locals before the first match
GlickoScorer(match_reports) ==
    [match_reports |-> match_reports,
     valid_matches |-> valid_matches(match_reports),
     match |-> 1, kill |-> 0, rankings |-> <<>>, calls |-> <<>>,
     pc |-> "looping"]

\* the report of the match the loop is at
CurrentMatch ==
    glicko_scorer.match_reports[glicko_scorer.valid_matches[glicko_scorer.match]]

\* one turn of `for kill in match.get_all_kills()`
RegisterWin ==
    /\ glicko_scorer.pc = "looping"
    /\ glicko_scorer.match <= Len(glicko_scorer.valid_matches)
    /\ glicko_scorer.kill < Len(get_all_kills(CurrentMatch))
    /\ LET kill == get_all_kills(CurrentMatch)[glicko_scorer.kill + 1]
           attacker_ranking == RankingsGet(glicko_scorer.rankings, kill.attacker)
           victim_ranking == RankingsGet(attacker_ranking.entries, kill.victim)
       IN  glicko_scorer' =
               [glicko_scorer EXCEPT
                   !.kill = @ + 1,
                   !.rankings = register_win(victim_ranking.entries,
                                             attacker_ranking.index,
                                             victim_ranking.index),
                   !.calls = Append(@, [call |-> "register_win",
                                        match |-> glicko_scorer.valid_matches[
                                                      glicko_scorer.match],
                                        player |-> kill.attacker.steam_id,
                                        other |-> kill.victim.steam_id])]
    /\ UNCHANGED <<replayVars, parserVars, statsVars, matches, stats_table,
                 win_rate_scorer>>

\* the calls of `for player in rankings.keys()`, in the order of the keys
DidNotCompeteCalls(entries, report, position) ==
    LET Away(entry) == entry.key.steam_id \notin MatchReport_get_all_players(report)
        away == SelectSeq(entries, Away)
    IN  [i \in 1 .. Len(away) |->
            [call |-> "did_not_compete", match |-> position,
             player |-> away[i].key.steam_id, other |-> 0]]

\* after the kills of a match: `for player in rankings.keys()`, next match
DidNotCompete ==
    /\ glicko_scorer.pc = "looping"
    /\ glicko_scorer.match <= Len(glicko_scorer.valid_matches)
    /\ glicko_scorer.kill = Len(get_all_kills(CurrentMatch))
    /\ glicko_scorer' =
           [glicko_scorer EXCEPT
               !.match = @ + 1,
               !.kill = 0,
               !.rankings =
                   [i \in DOMAIN @ |->
                       IF @[i].key.steam_id \in MatchReport_get_all_players(CurrentMatch)
                       THEN @[i]
                       ELSE [@[i] EXCEPT !.value = did_not_compete(@)]],
               !.calls = @ \o DidNotCompeteCalls(
                                  glicko_scorer.rankings, CurrentMatch,
                                  glicko_scorer.valid_matches[glicko_scorer.match])]
    /\ UNCHANGED <<replayVars, parserVars, statsVars, matches, stats_table,
                 win_rate_scorer>>

\* after the last match: return rankings
ReturnRankings ==
    /\ glicko_scorer.pc = "looping"
    /\ glicko_scorer.match > Len(glicko_scorer.valid_matches)
    /\ glicko_scorer' = [glicko_scorer EXCEPT !.pc = "returned"]
    /\ UNCHANGED <<replayVars, parserVars, statsVars, matches, stats_table,
                 win_rate_scorer>>

\* the rounds of the match reports handed to the scorer
RoundWithKill(attacker, victim, roster) ==
    RoundReport(1, 1, <<RoundStartEvent_(1), KillEvent_(1, attacker, victim, "awp"),
                        RoundEndEvent_(1)>>, roster, None)

QuietRound(roster) ==
    RoundReport(1, 1, <<RoundStartEvent_(1), RoundEndEvent_(1)>>, roster, None)

BothPlay == [CT |-> <<PlayerA>>, TERRORIST |-> <<PlayerB>>]

OnlyB == [CT |-> <<>>, TERRORIST |-> <<PlayerB>>]

\* two rounds with a kill each; one round only; two rounds, A kills and
\* leaves before the round closes; two rounds of B alone; no round at all
GlickoMatches ==
    {MatchReport(<<>>, "", <<RoundWithKill(PlayerA, PlayerB, BothPlay),
                             RoundWithKill(PlayerB, PlayerA2, BothPlay)>>),
     MatchReport(<<>>, "", <<RoundWithKill(PlayerA, PlayerB, BothPlay)>>),
     MatchReport(<<>>, "", <<RoundWithKill(PlayerA, PlayerB, OnlyB),
                             QuietRound(OnlyB)>>),
     MatchReport(<<>>, "", <<QuietRound(OnlyB), QuietRound(OnlyB)>>),
     MatchReport(<<>>, "", <<>>)}

GlickoMatchLists == UNION {[1 .. n -> GlickoMatches] : n \in 0 .. MaxMatches}

InitGlicko ==
    /\ NewMatch
    /\ max_events = MaxEvents
    /\ ParserIdle
    /\ StatsIdle
    /\ matches = <<>>
    /\ stats_table = <<>>
    /\ win_rate_scorer = <<>>
    /\ glicko_scorer \in {GlickoScorer(reports) : reports \in GlickoMatchLists}

NextGlicko == RegisterWin \/ DidNotCompete \/ ReturnRankings

SpecGlicko == InitGlicko /\ [][NextGlicko]_vars

(***************************************************************************)
(* WinRateScorer.get_player_scores (scorer.py), SpecWinRate.  The table of *)
(* collected stats is given; a quotient is kept as its two terms.          *)
(***************************************************************************)
\* PlayerStats.total_rounds_played
total_rounds_played(stats) == stats.rounds_won + stats.rounds_lost

\* int(): the value a defaultdict(int) gives for a missing key
NoScore == [raised |-> "", num |-> 0, den |-> 1]

\* rounds_won / rounds_played
TrueDiv(a, b) ==
    IF b = 0 THEN [raised |-> "ZeroDivisionError", num |-> a, den |-> b]
    ELSE [raised |-> "", num |-> a, den |-> b]

\* scores[player] = value
SetScore(scores, player, value) ==
    IF TableIndex(scores, player) # {}
    THEN [i \in DOMAIN scores |->
             IF i \in TableIndex(scores, player)
             THEN [scores[i] EXCEPT !.value = value] ELSE scores[i]]
    ELSE Append(scores, [key |-> player, value |-> value])

\* scores[player], on the defaultdict(int) that get_player_scores returns
GetScore(scores, player) ==
    IF TableIndex(scores, player) # {}
    THEN scores[CHOOSE i \in TableIndex(scores, player) : TRUE].value
    ELSE NoScore

\* the body of the loop without `if rounds_played:`
WinRateScorer_score_unguarded(scores, player, stats) ==
    SetScore(scores, player, TrueDiv(stats.rounds_won, total_rounds_played(stats)))

\* the body of `for player, stats in stats_by_player.items()`
WinRateScorer_score(scores, player, stats) ==
    IF total_rounds_played(stats) # 0
    THEN SetScore(scores, player,
                  TrueDiv(stats.rounds_won, total_rounds_played(stats)))
    ELSE scores

\* WinRateScorer.get_player_scores: its locals before the loop
WinRateScorer(stats_by_player) ==
    [stats_by_player |-> stats_by_player, done |-> 0, scores |-> <<>>,
     pc |-> "looping"]

\* one turn of the loop over stats_by_player.items()
ScoreWinRate ==
    /\ win_rate_scorer.pc = "looping"
    /\ win_rate_scorer.done < Len(win_rate_scorer.stats_by_player)
    /\ LET item == win_rate_scorer.stats_by_player[win_rate_scorer.done + 1]
           scores == WinRateScorer_score(win_rate_scorer.scores, item.key, item.value)
       IN  win_rate_scorer' =
               [win_rate_scorer EXCEPT
                   !.done = @ + 1,
                   !.scores = scores,
                   !.pc = IF GetScore(scores, item.key).raised # ""
                          THEN "raised" ELSE @]
    /\ UNCHANGED <<replayVars, parserVars, statsVars, matches, stats_table,
                   glicko_scorer>>

\* return scores
ReturnScores ==
    /\ win_rate_scorer.pc = "looping"
    /\ win_rate_scorer.done = Len(win_rate_scorer.stats_by_player)
    /\ win_rate_scorer' = [win_rate_scorer EXCEPT !.pc = "returned"]
    /\ UNCHANGED <<replayVars, parserVars, statsVars, matches, stats_table,
                   glicko_scorer>>

\* the collected stats of a player: rounds won and lost, the rest at zero
RoundStats == {[PlayerStats EXCEPT !.rounds_won = w, !.rounds_lost = l] :
                  w \in 0 .. MaxRounds, l \in 0 .. MaxRounds}

\* tables of collected stats: no player, one player, both players
CollectedStats ==
    {<<>>}
    \cup {<<[key |-> PlayerA, value |-> a]>> : a \in RoundStats}
    \cup {<<[key |-> PlayerB, value |-> b], [key |-> PlayerA, value |-> a]>> :
             a \in RoundStats, b \in RoundStats}

InitWinRate ==
    /\ NewMatch
    /\ max_events = MaxEvents
    /\ ParserIdle
    /\ StatsIdle
    /\ matches = <<>>
    /\ stats_table = <<>>
    /\ glicko_scorer = <<>>
    /\ win_rate_scorer \in {WinRateScorer(collected) : collected \in CollectedStats}

NextWinRate == ScoreWinRate \/ ReturnScores

SpecWinRate == InitWinRate /\ [][NextWinRate]_vars

(***************************************************************************)
(* The event list as the claims read it.                                   *)
(***************************************************************************)
\* the events that were processed without raising
Accepted ==
    IF pc = "aborted_in_loop" THEN SubSeq(processed, 1, Len(processed) - 1)
    ELSE processed

IsKind(seq, i, kind) == seq[i].kind = kind

HasKind(seq, kind) == \E i \in 1 .. Len(seq) : IsKind(seq, i, kind)

\* a RoundStart before position i of seq that no RoundEnd has closed since
RoundOpenBefore(seq, i) ==
    \E j \in 1 .. i - 1 :
        /\ IsKind(seq, j, "RoundStart")
        /\ \A k \in j + 1 .. i - 1 : ~IsKind(seq, k, "RoundEnd")

\* the positions of the RoundEnd events of seq, and the k-th of them
RoundEndPositions(seq) == {i \in 1 .. Len(seq) : IsKind(seq, i, "RoundEnd")}

RoundEndPosition(seq, k) ==
    CHOOSE i \in RoundEndPositions(seq) :
        Cardinality({j \in RoundEndPositions(seq) : j <= i}) = k

\* the last RoundStart before position i of seq
RoundStartPosition(seq, i) ==
    CHOOSE j \in 1 .. i - 1 :
        /\ IsKind(seq, j, "RoundStart")
        /\ \A k \in j + 1 .. i - 1 : ~IsKind(seq, k, "RoundStart")

RoundScopedKinds == {"RoundStart", "RoundEnd", "Attack", "Kill", "TeamWin"}

IsRoundScoped(e) == e.kind \in RoundScopedKinds

\* the round-scoped events of seq from position j to position i
RoundEventsBetween(seq, j, i) == SelectSeq(SubSeq(seq, j, i), IsRoundScoped)

\* event e of the list changes the roster entry of steam id s
Concerns(e, s) ==
    /\ e.kind \in {"PlayerJoinsTeam", "PlayerDisconnects"}
    /\ e.player.steam_id = s

\* the timestamps of seq never go back
NonDecreasing(seq) ==
    \A i, j \in 1 .. Len(seq) : i <= j => seq[i].timestamp <= seq[j].timestamp

Returned(call) == result # <<>> /\ result[1].call = call

\* C1: a RoundStart processed while a round is open (started and not closed
\* by a RoundEnd) aborts the replay at that RoundStart: it is the last event
\* taken, and nothing is returned.
C1_RoundStartInOpenRoundAborts ==
    \A i \in 1 .. Len(processed) :
        (IsKind(processed, i, "RoundStart") /\ RoundOpenBefore(processed, i))
            => /\ pc = "aborted_in_loop"
               /\ i = Len(processed)
               /\ result = <<>>

C1_Witness ==
    /\ Len(processed) >= 2
    /\ IsKind(processed, Len(processed), "RoundStart")
    /\ RoundOpenBefore(processed, Len(processed))
    /\ pc = "aborted_in_loop"

C3_ClosedRoundsInOrder ==
    Returned("incomplete_match_round_reports") =>
        LET rounds == result[1].rounds
        IN  /\ Len(rounds) = Cardinality(RoundEndPositions(processed))
            /\ \A k \in 1 .. Len(rounds) :
                   LET i == RoundEndPosition(processed, k)
                       j == RoundStartPosition(processed, i)
                   IN  rounds[k].events = RoundEventsBetween(processed, j, i)

C3_Witness ==
    /\ Returned("incomplete_match_round_reports")
    /\ Len(result[1].rounds) >= 1
    /\ ~HasKind(processed, "MatchEnd")
    /\ IsKind(processed, Len(processed), "RoundStart")

\* C4 as stated: while a round stays open, no step changes the team
\* composition the round carries.
C4_OpenRoundRosterFixed ==
    [][(/\ ongoing_round # <<>>
        /\ ~ongoing_round[1].ended
        /\ ongoing_round' # <<>>
        /\ ~ongoing_round'[1].ended)
           => heap'[ongoing_round'[1].team_composition]
                  = heap[ongoing_round[1].team_composition]]_vars

\* C4 amended: the round carries the match roster itself, not a snapshot: its
\* team composition is at every moment the current match roster, so
\* PlayerJoinsTeam and PlayerDisconnects events processed while the round is
\* open change it.
C4_RoundCarriesLiveRoster ==
    ongoing_round # <<>>
        => heap[ongoing_round[1].team_composition] = heap[team_composition]

C4_Witness ==
    /\ pc = "running"
    /\ Len(processed) >= 2
    /\ IsKind(processed, Len(processed), "PlayerJoinsTeam")
    /\ processed[Len(processed)].team \in RosterTeams
    /\ IsKind(processed, Len(processed) - 1, "RoundStart")
    /\ heap[ongoing_round[1].team_composition][processed[Len(processed)].team] # <<>>

\* C5: the team composition of the k-th round report is the roster at the
\* k-th RoundEnd: a steam id is listed under team T exactly when the last
\* join or disconnect of that steam id before that RoundEnd is a join of T.
C5_CompositionAtRoundClose ==
    \A k \in 1 .. Len(ended_round_reports) :
        LET i == RoundEndPosition(Accepted, k)
            comp == ended_round_reports[k].team_composition
        IN  \A s \in SteamIds, t \in RosterTeams :
                (\E n \in 1 .. Len(comp[t]) : comp[t][n].steam_id = s)
                    <=> \E m \in 1 .. i - 1 :
                            /\ Concerns(Accepted[m], s)
                            /\ IsKind(Accepted, m, "PlayerJoinsTeam")
                            /\ Accepted[m].team = t
                            /\ \A n \in m + 1 .. i - 1 : ~Concerns(Accepted[n], s)

\* a round whose roster gained one player and lost another while it was open
C5_Witness ==
    /\ Len(ended_round_reports) = 1
    /\ Len(Accepted) = 4
    /\ IsKind(Accepted, 1, "PlayerJoinsTeam")
    /\ Accepted[1].team = CT_team
    /\ IsKind(Accepted, 2, "RoundStart")
    /\ IsKind(Accepted, 3, "PlayerJoinsTeam")
    /\ Accepted[3].team = Terrorist_team
    /\ Accepted[3].player.steam_id # Accepted[1].player.steam_id
    /\ IsKind(Accepted, 4, "RoundEnd")
    /\ Len(ended_round_reports[1].team_composition[Terrorist_team]) = 1

\* C6: a round report, once in the list of closed rounds, stays there
\* unchanged at its position whatever is processed afterwards.
C6_ClosedReportsNeverChange ==
    [][\A k \in 1 .. Len(ended_round_reports) :
           /\ Len(ended_round_reports') >= k
           /\ ended_round_reports'[k] = ended_round_reports[k]]_vars

\* a closed round followed by a change of the roster and a further RoundEnd
C6_Witness ==
    /\ Len(ended_round_reports) = 2
    /\ Len(Accepted) = 4
    /\ IsKind(Accepted, 2, "RoundEnd")
    /\ IsKind(Accepted, 3, "PlayerJoinsTeam")
    /\ Accepted[3].team = CT_team
    /\ IsKind(Accepted, 4, "RoundEnd")

\* the step just taken processed an event of this kind without raising
Processed(kind) ==
    /\ Len(processed') = Len(processed) + 1
    /\ processed'[Len(processed')].kind = kind
    /\ pc' = "running"

Others(list, player) ==
    LET Other(q) == ~PlayerEq(q, player)
    IN  SelectSeq(list, Other)

\* C7: after PlayerJoinsTeam(p, T), p is the last entry of T's roster and in
\* no other roster when T is CT or TERRORIST, and in no roster when T is
\* SPECTATOR; the other players keep their rosters and their order.
C7_JoinMovesPlayerToEndOfTeam ==
    [][Processed("PlayerJoinsTeam") =>
         LET e == processed'[Len(processed')]
             old == heap[team_composition]
             new == heap'[team_composition]
         IN  /\ \A t \in RosterTeams :
                    /\ Others(new[t], e.player) = Others(old[t], e.player)
                    /\ t # e.team => ~PlayerIn(e.player, new[t])
             /\ e.team \in RosterTeams =>
                    /\ new[e.team] # <<>>
                    /\ new[e.team][Len(new[e.team])] = e.player
                    /\ ~PlayerIn(e.player, SubSeq(new[e.team], 1, Len(new[e.team]) - 1))]_vars

\* a player of the TERRORIST roster joins CT under another nickname
C7_Witness ==
    /\ pc = "running"
    /\ Len(processed) = 3
    /\ \A i \in 1 .. 3 : IsKind(processed, i, "PlayerJoinsTeam")
    /\ processed[1].team = Terrorist_team
    /\ processed[2].team = Terrorist_team
    /\ processed[3].team = CT_team
    /\ processed[1].player.steam_id # processed[2].player.steam_id
    /\ PlayerEq(processed[3].player, processed[1].player)
    /\ processed[3].player # processed[1].player
    /\ heap[team_composition][CT_team] = <<processed[3].player>>
    /\ heap[team_composition][Terrorist_team] = <<processed[2].player>>

\* C8: PlayerDisconnects(p) never raises and leaves p in neither roster; the
\* other players keep their rosters and order and nothing else of the match
\* changes; when p was in no roster the match does not change at all.
C8_DisconnectRemovesPlayer ==
    [][(/\ Len(processed') = Len(processed) + 1
        /\ processed'[Len(processed')].kind = "PlayerDisconnects") =>
         LET e == processed'[Len(processed')]
             old == heap[team_composition]
             new == heap'[team_composition]
         IN  /\ pc' = "running"
             /\ \A t \in RosterTeams :
                    /\ ~PlayerIn(e.player, new[t])
                    /\ Others(new[t], e.player) = Others(old[t], e.player)
             /\ UNCHANGED <<map_name, match_events, ended_round_reports,
                            ongoing_round, started, ended, result>>
             /\ (\A t \in RosterTeams : ~PlayerIn(e.player, old[t]))
                    => UNCHANGED matchVars]_vars

\* a player of the TERRORIST roster disconnects, and disconnects again
C8_Witness ==
    /\ pc = "running"
    /\ Len(processed) = 3
    /\ IsKind(processed, 1, "PlayerJoinsTeam")
    /\ processed[1].team = Terrorist_team
    /\ IsKind(processed, 2, "PlayerDisconnects")
    /\ IsKind(processed, 3, "PlayerDisconnects")
    /\ PlayerEq(processed[2].player, processed[1].player)
    /\ PlayerEq(processed[3].player, processed[1].player)
    /\ heap[team_composition] = EmptyRoster

\* C9 as stated: every round report has start_time <= end_time, whatever the
\* timestamps of the events.
C9_StartNotAfterEnd ==
    \A k \in 1 .. Len(ended_round_reports) :
        ended_round_reports[k].start_time <= ended_round_reports[k].end_time

\* C9 amended: every round report has start_time <= end_time when the
\* timestamps of the processed events never go back; the report takes its
\* times from its first and last event without comparing them.
C9_StartNotAfterEndIfChronological ==
    NonDecreasing(Accepted) => C9_StartNotAfterEnd

C9_Witness ==
    /\ NonDecreasing(Accepted)
    /\ Len(ended_round_reports) >= 1
    /\ ended_round_reports[1].start_time < ended_round_reports[1].end_time

RoundsInStartOrder(rounds) ==
    \A i, j \in 1 .. Len(rounds) :
        i <= j => rounds[i].start_time <= rounds[j].start_time

\* C10 as stated: the round reports of every match report are in
\* non-decreasing start_time order.
C10_RoundsInStartOrder ==
    Returned("completed_match_report")
        => RoundsInStartOrder(result[1].report.round_reports)

\* C10 amended: the round reports of a match report are in the order in which
\* the rounds were closed; they are in non-decreasing start_time order when
\* the timestamps of the processed events never go back.
C10_RoundsInStartOrderIfChronological ==
    (Returned("completed_match_report") /\ NonDecreasing(processed))
        => RoundsInStartOrder(result[1].report.round_reports)

C10_Witness ==
    /\ Returned("completed_match_report")
    /\ NonDecreasing(processed)
    /\ Len(result[1].report.round_reports) = 2
    /\ result[1].report.round_reports[1].start_time
           < result[1].report.round_reports[2].start_time

\* the lifecycle state of the match, read from its two flags
Lifecycle ==
    IF ended THEN "Ended" ELSE IF started THEN "Started" ELSE "NotStarted"

\* the step takes an event of this kind (it may raise)
Takes(kind) ==
    /\ Len(processed') = Len(processed) + 1
    /\ processed'[Len(processed')].kind = kind

LifecycleSteps ==
    /\ (Lifecycle' = "Started" /\ Lifecycle # "Started") => Takes("MatchStarted")
    /\ (Lifecycle' = "Ended" /\ Lifecycle # "Ended") => Takes("MatchEnd")
    /\ Lifecycle = "Started" => Lifecycle' # "NotStarted"
    /\ Lifecycle = "Ended" => Lifecycle' = "Ended"
    /\ (~Takes("MatchStarted") /\ ~Takes("MatchEnd")) => Lifecycle' = Lifecycle

\* C11 as stated: the lifecycle moves only NotStarted -> Started by
\* MatchStarted and Started -> Ended by MatchEnded, never back, and other
\* events leave it alone; Ended is entered only from Started.
C11_EndedOnlyFromStarted ==
    [][/\ LifecycleSteps
       /\ (Lifecycle' = "Ended" /\ Lifecycle # "Ended") => Lifecycle = "Started"]_vars

\* C11 amended: the same, except that MatchEnded enters Ended from NotStarted
\* as well as from Started; the two flags are only ever set, so a MatchStarted
\* after the end leaves the match Ended.
C11_LifecycleForward ==
    [][/\ LifecycleSteps
       /\ started => started'
       /\ ended => ended'
       /\ Takes("MatchStarted") => started'
       /\ Takes("MatchEnd") => ended']_vars

\* a match ended before it was started
C11_Witness ==
    /\ pc = "running"
    /\ Len(processed) = 2
    /\ IsKind(processed, 1, "MatchEnd")
    /\ IsKind(processed, 2, "MatchStarted")
    /\ Lifecycle = "Ended"

MatchLevelKinds == {"MapLoading", "MatchStarted", "MatchEnd", "PlayerJoinsTeam"}

IsMatchLevel(e) == e.kind \in MatchLevelKinds

FirstPosition(seq, kind) ==
    CHOOSE i \in 1 .. Len(seq) :
        IsKind(seq, i, kind) /\ \A j \in 1 .. i - 1 : ~IsKind(seq, j, kind)

\* C12 as stated: the returned match report holds what the match held when
\* the (first) MatchEnded event was processed; later events change nothing.
C12_ReportFrozenAtMatchEnd ==
    (Returned("completed_match_report") /\ HasKind(processed, "MatchEnd")) =>
        LET prefix == SubSeq(processed, 1, FirstPosition(processed, "MatchEnd"))
            report == result[1].report
        IN  /\ report.match_events = SelectSeq(prefix, IsMatchLevel)
            /\ Len(report.round_reports) = Cardinality(RoundEndPositions(prefix))

\* C12 amended: the match report is created once, by get_match_report after
\* the last event of the list, not when MatchEnded is processed: it holds the
\* match-level events and the closed rounds of the whole list, those after a
\* MatchEnded event included.
C12_ReportBuiltAfterLastEvent ==
    Returned("completed_match_report") =>
        LET report == result[1].report
        IN  /\ pc = "returned"
            /\ report.match_events = SelectSeq(processed, IsMatchLevel)
            /\ report.round_reports = ended_round_reports
            /\ Len(report.round_reports) = Cardinality(RoundEndPositions(processed))
            /\ report.map_name = map_name

\* a report with a round and a join that came after the MatchEnded event
C12_Witness ==
    /\ Returned("completed_match_report")
    /\ Len(processed) = 4
    /\ IsKind(processed, 1, "MatchEnd")
    /\ HasKind(processed, "PlayerJoinsTeam")
    /\ Len(result[1].report.round_reports) = 1
    /\ Len(result[1].report.match_events) = 2

\* C13: a RoundEnd taken while a round is open is appended to the round's
\* log, ends the round and appends exactly one report, whose start_time and
\* end_time are the timestamps of the round's first and last recorded event.
C13_RoundEndClosesRound ==
    [][(/\ Takes("RoundEnd")
        /\ ongoing_round # <<>>
        /\ ~ongoing_round[1].ended) =>
         LET e == processed'[Len(processed')]
             old == ongoing_round[1]
             new == ongoing_round'[1]
             report == ended_round_reports'[Len(ended_round_reports')]
         IN  /\ pc' = "running"
             /\ new.events = Append(old.events, e)
             /\ new.ended
             /\ Len(ended_round_reports') = Len(ended_round_reports) + 1
             /\ SubSeq(ended_round_reports', 1, Len(ended_round_reports))
                    = ended_round_reports
             /\ report.events = new.events
             /\ report.start_time = old.events[1].timestamp
             /\ report.end_time = e.timestamp]_vars

\* a round of three events whose first and last timestamps differ
C13_Witness ==
    /\ Len(processed) = 3
    /\ IsKind(processed, 2, "TeamWin")
    /\ Len(ended_round_reports) = 1
    /\ Len(ended_round_reports[1].events) = 3
    /\ ended_round_reports[1].start_time = processed[1].timestamp
    /\ ended_round_reports[1].end_time = processed[3].timestamp
    /\ processed[1].timestamp # processed[3].timestamp

\* the team of the last TeamWin of seq from position j to position i
LastWinner(seq, j, i) ==
    LET wins == {m \in j .. i : IsKind(seq, m, "TeamWin")}
    IN  IF wins = {} THEN None
        ELSE seq[CHOOSE m \in wins : \A n \in wins : n <= m].team

\* C14: the log of a round is the round events taken since its RoundStart,
\* in arrival order, and so are the events of its report; the winner of the
\* report is the team of the last TeamWin among them, and None without one.
C14_RoundLogAndWinner ==
    /\ (ongoing_round # <<>> /\ ~ongoing_round[1].ended) =>
           LET j == RoundStartPosition(Accepted, Len(Accepted) + 1)
           IN  /\ ongoing_round[1].events = RoundEventsBetween(Accepted, j, Len(Accepted))
               /\ ongoing_round[1].winner_team = LastWinner(Accepted, j, Len(Accepted))
    /\ \A k \in 1 .. Len(ended_round_reports) :
           LET i == RoundEndPosition(Accepted, k)
               j == RoundStartPosition(Accepted, i)
           IN  /\ ended_round_reports[k].events = RoundEventsBetween(Accepted, j, i)
               /\ ended_round_reports[k].winner_team = LastWinner(Accepted, j, i)

\* a round won by CT, and a next round nobody won
C14_Witness ==
    /\ Len(ended_round_reports) = 2
    /\ ended_round_reports[1].winner_team = CT_team
    /\ ended_round_reports[2].winner_team = None
    /\ Len(ended_round_reports[1].events) = 3
    /\ Len(ended_round_reports[2].events) = 2

ParserRaised == parser_pc \notin {"parsing", "returned"}

\* the positions of the lines that match an event pattern, and the k-th
MatchingLines == {i \in 1 .. Len(lines) : lines[i].patterns # {}}

MatchingLine(k) ==
    CHOOSE i \in MatchingLines : Cardinality({j \in MatchingLines : j <= i}) = k

OrderOf(kind) == CHOOSE i \in 1 .. Len(EventOrder) : EventOrder[i] = kind

\* C15: get_events has one event per line that matches an event pattern, in
\* the order of the lines, each of the first pattern its line matches and of
\* the line's timestamp; a line that matches no pattern adds nothing and
\* never raises.
C15_OneEventPerMatchingLine ==
    /\ ~ParserRaised =>
           /\ Len(events) = Cardinality(MatchingLines)
           /\ \A k \in 1 .. Len(events) :
                  LET line == lines[MatchingLine(k)]
                  IN  /\ events[k].timestamp = line.time
                      /\ events[k].kind \in line.patterns
                      /\ \A other \in line.patterns :
                             OrderOf(events[k].kind) <= OrderOf(other)
    /\ ParserRaised => Len(lines) \in MatchingLines

\* two events returned, with an unrecognized line between their lines
C15_Witness ==
    /\ parser_pc = "returned"
    /\ Len(lines) = 3
    /\ lines[1].patterns = {"Kill", "Server"}
    /\ lines[2].patterns = {}
    /\ lines[2].preamble = "none"
    /\ lines[3].patterns = {"Server"}
    /\ Len(events) = 2
    /\ events[1].kind = "Kill"

\* C16: a line that matches an event pattern and has no timestamp preamble
\* ends get_events there with an Exception that is no UnhandledLine: it is
\* the last line read, it adds no event, and get_events never returns.
C16_MissingTimestampPropagates ==
    \A i \in 1 .. Len(lines) :
        (lines[i].patterns # {} /\ lines[i].preamble = "none")
            => /\ parser_pc = "Exception"
               /\ i = Len(lines)
               /\ Len(events) = Cardinality(MatchingLines) - 1

\* an event was decoded, then a recognized line without a timestamp was read
C16_Witness ==
    /\ parser_pc = "Exception"
    /\ Len(lines) = 2
    /\ Len(events) = 1
    /\ lines[2].patterns = {"RoundStart"}
    /\ lines[2].preamble = "none"

(***************************************************************************)
(* The table of stats as the claims read it.                               *)
(***************************************************************************)
\* the stats the table holds for a steam id: those of a new entry if none
StatsOf(entries, steam_id) ==
    IF \E i \in 1 .. Len(entries) : entries[i].key.steam_id = steam_id
    THEN entries[CHOOSE i \in 1 .. Len(entries) :
                     entries[i].key.steam_id = steam_id].value
    ELSE PlayerStats

\* the damage a weapon's bucket holds: 0 for a weapon never used
WeaponDamage(stats, weapon) ==
    IF weapon \in DOMAIN stats.damage_inflicted_by_weapon
    THEN stats.damage_inflicted_by_weapon[weapon]
    ELSE 0

WeaponNames == {e.weapon : e \in StatsAttacks \cup StatsKills}

\* the last (player, event) pair folded by a step
JustFolded == folded'[Len(folded')]

Folds(kind) ==
    /\ Len(folded') = Len(folded) + 1
    /\ JustFolded.event.kind = kind

SameSteamId(p, q) == p.steam_id = q.steam_id

OnRoster(player, list) ==
    \E i \in 1 .. Len(list) : list[i].steam_id = player.steam_id

OtherTeam(team) == IF team = CT_team THEN Terrorist_team ELSE CT_team

\* the events folded for a steam id, applied in order to new stats
RECURSIVE StatsFoldedFor(_, _)
StatsFoldedFor(seq, steam_id) ==
    IF seq = <<>> THEN PlayerStats
    ELSE LET before == StatsFoldedFor(SubSeq(seq, 1, Len(seq) - 1), steam_id)
             last == seq[Len(seq)]
         IN  IF last.player.steam_id = steam_id
             THEN impact_player_stats(last.event, last.player, before, stats_round)
             ELSE before

\* C17: two Players with the same steam id are equal and hash equal whatever
\* their nicknames, so the table holds at most one entry per steam id and
\* that entry holds everything folded for the steam id, under any nickname.
C17_OneEntryPerSteamId ==
    /\ \A p, q \in Players :
           p.steam_id = q.steam_id => PlayerEq(p, q) /\ PlayerHash(p) = PlayerHash(q)
    /\ \A i, j \in 1 .. Len(table) :
           table[i].key.steam_id = table[j].key.steam_id => i = j
    /\ \A s \in SteamIds :
           /\ StatsOf(table, s) = StatsFoldedFor(folded, s)
           /\ (\E k \in 1 .. Len(folded) : folded[k].player.steam_id = s)
                  <=> (\E i \in 1 .. Len(table) : table[i].key.steam_id = s)

\* the attacks of Mcd and of Rocho, one steam id, are on one entry
C17_Witness ==
    /\ Len(folded) = 2
    /\ folded[1].player = PlayerA
    /\ folded[2].player = PlayerA2
    /\ folded[1].event = AttackEvent_(1, PlayerA, PlayerB, "mp5navy", 13)
    /\ folded[2].event = AttackEvent_(1, PlayerA2, PlayerB, "usp", 21)
    /\ Len(table) = 1
    /\ table[1].key = PlayerA
    /\ table[1].value.damage_inflicted = 34

\* C18: folding an Attack with damage d into the stats of P adds d to P's
\* damage_inflicted and to the bucket of the weapon iff P is the attacker,
\* adds d to P's damage_received iff P is the victim, changes nothing else.
C18_AttackFold ==
    [][Folds("Attack") =>
        LET P == JustFolded.player
            e == JustFolded.event
            before == StatsOf(table, P.steam_id)
            after == StatsOf(table', P.steam_id)
            inflicted == IF SameSteamId(P, e.attacker) THEN e.damage ELSE 0
            received == IF SameSteamId(P, e.victim) THEN e.damage ELSE 0
        IN  /\ e.damage > 0
            /\ after.damage_inflicted = before.damage_inflicted + inflicted
            /\ \A w \in WeaponNames :
                   WeaponDamage(after, w) =
                       WeaponDamage(before, w) + (IF w = e.weapon THEN inflicted ELSE 0)
            /\ DOMAIN after.damage_inflicted_by_weapon \subseteq WeaponNames
            /\ after.damage_received = before.damage_received + received
            /\ after.kills = before.kills
            /\ after.deaths = before.deaths
            /\ after.rounds_won = before.rounds_won
            /\ after.rounds_lost = before.rounds_lost
            /\ \A s \in SteamIds \ {P.steam_id} :
                   StatsOf(table', s) = StatsOf(table, s)]_vars

\* an attack of a player on themself counts on both sides of their stats
C18_Witness ==
    /\ Len(folded) = 1
    /\ folded[1].player = PlayerA
    /\ folded[1].event = AttackEvent_(1, PlayerA, PlayerA2, "hegrenade", 13)
    /\ table[1].value.damage_inflicted = 13
    /\ table[1].value.damage_received = 13
    /\ WeaponDamage(table[1].value, "hegrenade") = 13

\* C19: folding a Kill into the stats of P adds one to P's kills iff P is the
\* attacker, one to P's deaths iff P is the victim, and changes no other
\* counter.
C19_KillFold ==
    [][Folds("Kill") =>
        LET P == JustFolded.player
            e == JustFolded.event
            before == StatsOf(table, P.steam_id)
            after == StatsOf(table', P.steam_id)
        IN  /\ after.kills =
                   before.kills + (IF SameSteamId(P, e.attacker) THEN 1 ELSE 0)
            /\ after.deaths =
                   before.deaths + (IF SameSteamId(P, e.victim) THEN 1 ELSE 0)
            /\ after.damage_inflicted = before.damage_inflicted
            /\ after.damage_received = before.damage_received
            /\ after.damage_inflicted_by_weapon = before.damage_inflicted_by_weapon
            /\ after.rounds_won = before.rounds_won
            /\ after.rounds_lost = before.rounds_lost
            /\ \A s \in SteamIds \ {P.steam_id} :
                   StatsOf(table', s) = StatsOf(table, s)]_vars

\* the kill of Rocho counts as a death of Mcd, the same steam id
C19_Witness ==
    /\ Len(folded) = 1
    /\ folded[1].player = PlayerA
    /\ folded[1].event = KillEvent_(1, PlayerB, PlayerA2, "usp")
    /\ table[1].value.deaths = 1
    /\ table[1].value.kills = 0

\* C20: folding the TeamWin(T) of a round into the stats of P adds one to
\* rounds_won if P is on T's roster of the round, one to rounds_lost if P is
\* on the other playing roster, and changes nothing if P is on neither.
C20_TeamWinFold ==
    [][Folds("TeamWin") =>
        LET P == JustFolded.player
            T == JustFolded.event.team
            before == StatsOf(table, P.steam_id)
            after == StatsOf(table', P.steam_id)
            winner == OnRoster(P, stats_round.team_composition[T])
            loser == /\ ~winner
                     /\ OnRoster(P, stats_round.team_composition[OtherTeam(T)])
        IN  /\ T \in RosterTeams
            /\ winner => after = [before EXCEPT !.rounds_won = @ + 1]
            /\ loser => after = [before EXCEPT !.rounds_lost = @ + 1]
            /\ ~winner /\ ~loser => after = before
            /\ \A s \in SteamIds \ {P.steam_id} :
                   StatsOf(table', s) = StatsOf(table, s)]_vars

\* a player on neither roster of the round, then one on the losing roster
C20_Witness ==
    /\ Len(folded) = 2
    /\ stats_round.team_composition = [CT |-> <<PlayerB>>, TERRORIST |-> <<>>]
    /\ folded[1] = [player |-> PlayerA, event |-> TeamWinEvent_(1, CT_team)]
    /\ folded[2] = [player |-> PlayerB, event |-> TeamWinEvent_(1, Terrorist_team)]
    /\ Len(table) = 2
    /\ StatsOf(table, 111) = PlayerStats
    /\ StatsOf(table, 222) = [PlayerStats EXCEPT !.rounds_lost = 1]

(***************************************************************************)
(* The reports as the claims read them.                                    *)
(***************************************************************************)
NamesAsAttacker(e, player) ==
    e.kind \in {"Attack", "Kill"} /\ e.attacker.steam_id = player.steam_id

NamesAsVictim(e, player) ==
    e.kind \in {"Attack", "Kill"} /\ e.victim.steam_id = player.steam_id

\* the number of events of seq of a kind that Test accepts
CountEvents(seq, kind, Test(_)) ==
    Cardinality({i \in 1 .. Len(seq) : seq[i].kind = kind /\ Test(seq[i])})

\* the damage of the attacks of seq that Test accepts
SumDamage(seq, Test(_)) ==
    LET sum[i \in 0 .. Len(seq)] ==
            IF i = 0 THEN 0
            ELSE sum[i - 1] + (IF seq[i].kind = "Attack" /\ Test(seq[i])
                               THEN seq[i].damage ELSE 0)
    IN  sum[Len(seq)]

AbsentFrom(round, player) ==
    /\ ~OnRoster(player, round.team_composition[CT_team])
    /\ ~OnRoster(player, round.team_composition[Terrorist_team])

\* C21 as stated: folding a round for a player on neither roster of the
\* round yields the zero-valued PlayerStats.
C21_AbsentPlayerFoldsToZero ==
    \A i \in 1 .. Len(ended_round_reports) : \A P \in Players :
        AbsentFrom(ended_round_reports[i], P)
            => RoundReport_add_to_player_stats(ended_round_reports[i], P,
                                               PlayerStats) = PlayerStats

\* C21 amended: for a player on neither roster of a round, get_player_stats
\* fails its assertion, and add_to_player_stats counts no round won or lost
\* but does count the attacks and kills of the round that name the player.
C21_AbsentPlayerFoldsOwnEvents ==
    \A i \in 1 .. Len(ended_round_reports) : \A P \in Players :
        LET round == ended_round_reports[i]
            stats == RoundReport_add_to_player_stats(round, P, PlayerStats)
            ByP(e) == NamesAsAttacker(e, P)
            OnP(e) == NamesAsVictim(e, P)
        IN  AbsentFrom(round, P)
                => /\ RoundReport_get_player_stats(round, P).raised = "AssertionError"
                   /\ stats.rounds_won = 0
                   /\ stats.rounds_lost = 0
                   /\ stats.damage_inflicted = SumDamage(round.events, ByP)
                   /\ stats.damage_received = SumDamage(round.events, OnP)
                   /\ stats.kills = CountEvents(round.events, "Kill", ByP)
                   /\ stats.deaths = CountEvents(round.events, "Kill", OnP)
                   /\ (\A k \in 1 .. Len(round.events) :
                           ~ByP(round.events[k]) /\ ~OnP(round.events[k]))
                          => stats = PlayerStats

\* a round won by CT with A alone on a roster: A's attack counts for B
C21_Witness ==
    /\ Len(ended_round_reports) = 1
    /\ ended_round_reports[1].team_composition =
           [CT |-> <<PlayerA>>, TERRORIST |-> <<>>]
    /\ ended_round_reports[1].winner_team = CT_team
    /\ RoundReport_add_to_player_stats(ended_round_reports[1], PlayerB, PlayerStats)
           = [PlayerStats EXCEPT !.damage_received = 13]

\* the counter-wise sum of two PlayerStats
StatsSum(a, b) ==
    [damage_inflicted |-> a.damage_inflicted + b.damage_inflicted,
     damage_received |-> a.damage_received + b.damage_received,
     kills |-> a.kills + b.kills,
     deaths |-> a.deaths + b.deaths,
     rounds_won |-> a.rounds_won + b.rounds_won,
     rounds_lost |-> a.rounds_lost + b.rounds_lost,
     damage_inflicted_by_weapon |->
         [w \in DOMAIN a.damage_inflicted_by_weapon
                    \cup DOMAIN b.damage_inflicted_by_weapon |->
             WeaponDamage(a, w) + WeaponDamage(b, w)]]

\* the sum of the stats of each round of the list, folded alone
SumOfRounds(rounds, player) ==
    LET sum[i \in 0 .. Len(rounds)] ==
            IF i = 0 THEN PlayerStats
            ELSE StatsSum(sum[i - 1],
                          RoundReport_add_to_player_stats(rounds[i], player,
                                                          PlayerStats))
    IN  sum[Len(rounds)]

\* C22: the stats of a player in a match report are the counter-wise sum,
\* over the round reports in order, of the stats of each round folded alone.
C22_MatchStatsAreSumOfRounds ==
    Returned("completed_match_report") =>
        \A P \in Players :
            MatchReport_get_player_stats(result[1].report, P) =
                SumOfRounds(result[1].report.round_reports, P)

\* two rounds, each with an attack of A on B and a win of A's team
C22_Witness ==
    /\ Returned("completed_match_report")
    /\ Len(result[1].report.round_reports) = 2
    /\ \A i \in 1 .. 2 :
           RoundReport_add_to_player_stats(result[1].report.round_reports[i],
                                           PlayerA, PlayerStats).damage_inflicted = 13
    /\ Len(result[1].report.round_reports[1].events) = 3
    /\ MatchReport_get_player_stats(result[1].report, PlayerA2).damage_inflicted = 26
    /\ WeaponDamage(MatchReport_get_player_stats(result[1].report, PlayerA), "awp") = 26

\* event k of round i of the list is the earliest event that Test accepts
IsEarliest(rounds, i, k, Test(_)) ==
    /\ Test(rounds[i].events[k])
    /\ \A l \in 1 .. k - 1 : ~Test(rounds[i].events[l])
    /\ \A j \in 1 .. i - 1 : \A l \in 1 .. Len(rounds[j].events) :
           ~Test(rounds[j].events[l])

\* the answer is the earliest event of the closed rounds that Test accepts,
\* and a failure with a message exactly when there is none
AnswersEarliest(answer, rounds, Test(_)) ==
    IF \E i \in 1 .. Len(rounds) : \E k \in 1 .. Len(rounds[i].events) :
           Test(rounds[i].events[k])
    THEN /\ answer.raised = ""
         /\ \E i \in 1 .. Len(rounds) : \E k \in 1 .. Len(rounds[i].events) :
                /\ IsEarliest(rounds, i, k, Test)
                /\ answer.event = rounds[i].events[k]
    ELSE /\ answer.raised = "Exception"
         /\ answer.message # ""
         /\ answer.event = NoEvent

IsAttackEvent(e) == e.kind = "Attack"

IsKillEvent(e) == e.kind = "Kill"

IsAttackOrKillEvent(e) == e.kind = "Attack" \/ e.kind = "Kill"

\* C23 as stated: get_first_attack answers the earliest Attack event of the
\* closed rounds and get_first_kill the earliest Kill event, in round order
\* then recorded order; each fails exactly when there is no such event.
C23_FirstAttackIsAnAttack ==
    Returned("completed_match_report") =>
        /\ AnswersEarliest(get_first_attack(result[1].report),
                           result[1].report.round_reports, IsAttackEvent)
        /\ AnswersEarliest(get_first_kill(result[1].report),
                           result[1].report.round_reports, IsKillEvent)

\* C23 amended: a Kill counts as an attack.  get_first_attack answers the
\* earliest event of the closed rounds that is an Attack or a Kill and fails
\* exactly when the closed rounds hold neither; get_first_kill answers the
\* earliest Kill and fails exactly when the closed rounds hold no Kill.
C23_FirstAttackOrKill ==
    Returned("completed_match_report") =>
        /\ AnswersEarliest(get_first_attack(result[1].report),
                           result[1].report.round_reports, IsAttackOrKillEvent)
        /\ AnswersEarliest(get_first_kill(result[1].report),
                           result[1].report.round_reports, IsKillEvent)

\* a round without blood, then a round with a kill before its first attack
C23_Witness ==
    /\ Returned("completed_match_report")
    /\ Len(result[1].report.round_reports) = 2
    /\ Len(result[1].report.round_reports[1].events) = 2
    /\ result[1].report.round_reports[2].events[2] = KillEvent_(2, PlayerB, PlayerA, "awp")
    /\ result[1].report.round_reports[2].events[3] =
           AttackEvent_(1, PlayerA, PlayerB, "awp", 13)
    /\ get_first_attack(result[1].report).event = KillEvent_(2, PlayerB, PlayerA, "awp")
    /\ get_first_kill(result[1].report).event = KillEvent_(2, PlayerB, PlayerA, "awp")

IsMapLoading(e) == e.kind = "MapLoading"

\* the name carried by the last MapLoading of seq, "" without one
LastMapName(seq) ==
    IF SelectSeq(seq, IsMapLoading) = <<>> THEN ""
    ELSE SelectSeq(seq, IsMapLoading)[Len(SelectSeq(seq, IsMapLoading))].map_name

MapNameFollowsLastLoading ==
    /\ map_name = LastMapName(Accepted)
    /\ SelectSeq(match_events, IsMapLoading) = SelectSeq(Accepted, IsMapLoading)
    /\ Returned("completed_match_report") =>
           /\ get_map_name(result[1].report) = LastMapName(processed)
           /\ SelectSeq(result[1].report.match_events, IsMapLoading) =
                  SelectSeq(processed, IsMapLoading)

\* a MapLoading processed right after the same MapLoading
MapLoadingTwice ==
    /\ Processed("MapLoading")
    /\ Len(processed) >= 1
    /\ processed[Len(processed)] = processed'[Len(processed')]

\* C24: the map name of the report is the name of the last MapLoading
\* processed, "" without one; every MapLoading is in the match-event log in
\* arrival order; the same MapLoading processed a second time leaves the map
\* name as the first time left it.
C24_MapNameIsLastLoaded ==
    /\ []MapNameFollowsLastLoading
    /\ [][MapLoadingTwice => map_name' = map_name /\ map_name' = processed[Len(processed)].map_name]_vars

\* two maps loaded, the second one twice
C24_Witness ==
    /\ Returned("completed_match_report")
    /\ processed = <<MapLoadingEvent_(1, "awp_india"), MapLoadingEvent_(2, "de_dust2"),
                     MapLoadingEvent_(2, "de_dust2")>>
    /\ get_map_name(result[1].report) = "de_dust2"
    /\ Len(result[1].report.match_events) = 3

\* C25: the start and the end time of the report are the timestamps of the
\* first and of the last match-level event processed (MapLoading,
\* MatchStarted, MatchEnded, PlayerJoinsTeam); no other event affects them.
C25_TimesOfMatchLevelEvents ==
    Returned("completed_match_report") =>
        LET level == SelectSeq(processed, IsMatchLevel)
        IN  /\ result[1].report.match_events = level
            /\ level # <<>> =>
                   /\ get_start_time(result[1].report) =
                          [raised |-> "", time |-> level[1].timestamp]
                   /\ get_end_time(result[1].report) =
                          [raised |-> "", time |-> level[Len(level)].timestamp]

\* a Server line and a RoundStart around two match-level events
C25_Witness ==
    /\ Returned("completed_match_report")
    /\ processed = <<RoundStartEvent_(2), MatchStartedEvent_(1), MatchEndEvent_(2),
                     ServerEvent_(1)>>
    /\ get_start_time(result[1].report).time = 1
    /\ get_end_time(result[1].report).time = 2

\* the positions of the round reports of the list that team has won
RoundsWonBy(rounds, team) ==
    {i \in 1 .. Len(rounds) : rounds[i].winner_team = team}

\* C26: for T in {CT, TERRORIST}, the score of T is the number of round
\* reports of the match whose winner is T; a round without a winner counts
\* for neither, so the two scores add up to the number of rounds with a
\* winner.
C26_ScoreCountsRoundsWon ==
    Returned("completed_match_report") =>
        LET report == result[1].report
            rounds == report.round_reports
        IN  /\ \A T \in {CT_team, Terrorist_team} :
                   get_team_score(report, T) = Cardinality(RoundsWonBy(rounds, T))
            /\ get_team_score(report, CT_team) + get_team_score(report, Terrorist_team)
                   = Cardinality({i \in 1 .. Len(rounds) : rounds[i].winner_team # None})

\* a round that TERRORIST and then CT are said to win, and a round nobody won
C26_Witness ==
    /\ Returned("completed_match_report")
    /\ processed = <<RoundStartEvent_(1), TeamWinEvent_(1, Terrorist_team),
                     TeamWinEvent_(1, CT_team), RoundEndEvent_(1),
                     RoundStartEvent_(1), RoundEndEvent_(1)>>
    /\ get_team_score(result[1].report, CT_team) = 1
    /\ get_team_score(result[1].report, Terrorist_team) = 0
    /\ Len(result[1].report.round_reports) = 2

\* the replay of one log alone, in a heap of its own, up to where log stands
Alone(m) ==
    LET after[k \in 0 .. Len(m.processed)] ==
            IF k = 0 THEN MatchInProgress(<<>>)
            ELSE take_event(after[k - 1].match, after[k - 1].heap, m.processed[k])
    IN  IF m.pc \in {"returned", "aborted_in_report"}
        THEN [match |-> get_match_report(after[Len(m.processed)].match),
              heap |-> after[Len(m.processed)].heap]
        ELSE after[Len(m.processed)]

\* a match with the rosters in place of the references to them
Contents(m, h) ==
    [m EXCEPT !.team_composition = h[@],
              !.ongoing_round =
                  IF @ = <<>> THEN <<>>
                  ELSE <<[@[1] EXCEPT !.team_composition = h[@]]>>]

\* C27: replays of different logs share no state: however the events of two
\* logs are interleaved, the rounds, the roster and the reports of each are
\* those of its own events replayed alone.
C27_ReplaysAreIndependent ==
    \A i \in DOMAIN matches :
        LET alone == Alone(matches[i])
        IN  Contents(matches[i], heap) = Contents(alone.match, alone.heap)

\* a player joins a team in one log while a round runs and ends in the other
C27_Witness ==
    /\ Len(matches) = 2
    /\ matches[1].processed = <<PlayerJoinsTeamEvent_(1, PlayerA, CT_team)>>
    /\ matches[2].processed = <<RoundStartEvent_(1), RoundEndEvent_(1)>>
    /\ matches[2].pc = "returned"
    /\ matches[2].result[1].round_reports[1].team_composition = EmptyRoster
    /\ heap[matches[1].team_composition][CT_team] = <<PlayerA>>

\* C28: the full table has a row for a player exactly when every configured
\* scorer produced a full score for the player.
C28_RowIffEveryScorerScored ==
    stats_table # <<>> /\ stats_table.pc = "returned" =>
        \A P \in SteamIds :
            P \in DOMAIN stats_table.filtered_table
                <=> \A k \in 1 .. Len(stats_table.scorers) :
                        P \in stats_table.scorers[k].scores

\* the win a kill of the match at a position registers
WinOf(kill, position) ==
    [call |-> "register_win", match |-> position,
     player |-> kill.attacker.steam_id, other |-> kill.victim.steam_id]

\* one win per kill of the matches with at least 2 closed rounds among the
\* first n, in the order of the matches and of the kills in each
WinsOfMatches(match_reports, n) ==
    LET KillsOf(report) == SelectSeq(all_round_events(report), IsKillEvent)
        upto[i \in 0 .. n] ==
            IF i = 0 THEN <<>>
            ELSE IF Len(match_reports[i].round_reports) < 2 THEN upto[i - 1]
            ELSE upto[i - 1] \o
                 [k \in 1 .. Len(KillsOf(match_reports[i])) |->
                     WinOf(KillsOf(match_reports[i])[k], i)]
    IN  upto[n]

IsWin(c) == c.call = "register_win"

IsInflation(c) == c.call = "did_not_compete"

\* the steam ids named by the wins registered so far
Contested ==
    {glicko_scorer.calls[k].player :
        k \in {j \in DOMAIN glicko_scorer.calls : IsWin(glicko_scorer.calls[j])}}
    \cup {glicko_scorer.calls[k].other :
        k \in {j \in DOMAIN glicko_scorer.calls : IsWin(glicko_scorer.calls[j])}}

\* C29: the rating scorer registers one win, attacker over victim, per kill
\* of every given match with at least 2 closed rounds, in the order of the
\* matches and of the kills in each; a match with fewer closed rounds is the
\* occasion of no call on any rating, and ratings exist only for the players
\* of the registered wins.
C29_OneWinPerKillOfValidMatches ==
    glicko_scorer # <<>> =>
        /\ \A k \in DOMAIN glicko_scorer.calls :
               Len(glicko_scorer.match_reports[
                       glicko_scorer.calls[k].match].round_reports) >= 2
        /\ {glicko_scorer.rankings[k].key.steam_id :
               k \in DOMAIN glicko_scorer.rankings} = Contested
        /\ glicko_scorer.pc = "returned" =>
               SelectSeq(glicko_scorer.calls, IsWin)
                   = WinsOfMatches(glicko_scorer.match_reports,
                                   Len(glicko_scorer.match_reports))

\* a match of one closed round with a kill is skipped, the two kills of the
\* match of two rounds after it are registered in their order
C29_Witness ==
    /\ glicko_scorer # <<>>
    /\ glicko_scorer.pc = "returned"
    /\ Len(glicko_scorer.match_reports) = 2
    /\ Len(glicko_scorer.match_reports[1].round_reports) = 1
    /\ get_all_kills(glicko_scorer.match_reports[1]) # <<>>
    /\ SelectSeq(glicko_scorer.calls, IsWin)
           = <<[call |-> "register_win", match |-> 2, player |-> 111, other |-> 222],
               [call |-> "register_win", match |-> 2, player |-> 222, other |-> 111]>>

\* a player appears in a match when a roster of a closed round lists the
\* player or an event of a closed round names the player
AppearedIn(report, P) ==
    \/ P \in MatchReport_get_all_players(report)
    \/ \E k \in DOMAIN all_round_events(report) :
           /\ IsAttackOrKillEvent(all_round_events(report)[k])
           /\ P \in {all_round_events(report)[k].attacker.steam_id,
                     all_round_events(report)[k].victim.steam_id}

\* the steam ids holding a rating once the kills of the match at a position
\* are processed
RatedBy(position) ==
    {c.player : c \in {glicko_scorer.calls[k] :
        k \in {j \in DOMAIN glicko_scorer.calls :
                  /\ IsWin(glicko_scorer.calls[j])
                  /\ glicko_scorer.calls[j].match <= position}}}
    \cup {c.other : c \in {glicko_scorer.calls[k] :
        k \in {j \in DOMAIN glicko_scorer.calls :
                  /\ IsWin(glicko_scorer.calls[j])
                  /\ glicko_scorer.calls[j].match <= position}}}

\* the times did_not_compete was called for a player after a match
Inflations(position, P) ==
    Cardinality({k \in DOMAIN glicko_scorer.calls :
        /\ IsInflation(glicko_scorer.calls[k])
        /\ glicko_scorer.calls[k].match = position
        /\ glicko_scorer.calls[k].player = P})

\* C30: once the kills of a replayed match are processed, did_not_compete is
\* applied once to every player who holds a rating and did not appear in
\* the match, and to no player who appeared in it.
C30_InflatedIffRatedAndAbsent ==
    glicko_scorer # <<>> /\ glicko_scorer.pc = "returned" =>
        \A i \in DOMAIN glicko_scorer.valid_matches : \A P \in SteamIds :
            Inflations(glicko_scorer.valid_matches[i], P)
                = IF /\ P \in RatedBy(glicko_scorer.valid_matches[i])
                     /\ ~AppearedIn(glicko_scorer.match_reports[
                                        glicko_scorer.valid_matches[i]], P)
                  THEN 1 ELSE 0

\* the turns of the loop that are done
ScoredItems ==
    {win_rate_scorer.stats_by_player[i] : i \in 1 .. win_rate_scorer.done}

\* C31: the win rate of a player with no round played is 0 and computing it
\* never divides by zero; the win rate of a player with rounds played is
\* rounds_won divided by the rounds played.
C31_WinRateOfNoRoundsIsZero ==
    win_rate_scorer # <<>> =>
        /\ win_rate_scorer.pc # "raised"
        /\ \A item \in ScoredItems :
               LET score == GetScore(win_rate_scorer.scores, item.key)
                   played == item.value.rounds_won + item.value.rounds_lost
               IN  /\ score.raised = ""
                   /\ score.den # 0
                   /\ played = 0 => score.num = 0 /\ score.den = 1
                   /\ played # 0 => /\ score.num = item.value.rounds_won
                                    /\ score.den = played

\* the scores are returned for a player with no round and one who won 1 of 3
C31_Witness ==
    /\ win_rate_scorer # <<>>
    /\ win_rate_scorer.pc = "returned"
    /\ \E item \in ScoredItems :
           /\ item.key = PlayerB
           /\ item.value.rounds_won + item.value.rounds_lost = 0
    /\ \E item \in ScoredItems :
           /\ item.key = PlayerA
           /\ item.value.rounds_won = 1
           /\ item.value.rounds_lost = 2
    /\ GetScore(win_rate_scorer.scores, PlayerB) = NoScore
    /\ GetScore(win_rate_scorer.scores, PlayerA) = [raised |-> "", num |-> 1, den |-> 3]

\* no RoundStart among the events of seq before position i
NoRoundStartBefore(seq, i) == \A j \in 1 .. i - 1 : ~IsKind(seq, j, "RoundStart")

NeedsARound(e) == e.kind \in {"Attack", "Kill", "TeamWin", "RoundEnd"}

\* C32: an Attack, Kill, TeamWin or RoundEnd event processed before any
\* RoundStart aborts the replay at that event with the assertion: it is the
\* last event taken, and neither a match report nor a list of round reports
\* is returned.
C32_RoundEventBeforeAnyRoundAborts ==
    \A i \in 1 .. Len(processed) :
        (NeedsARound(processed[i]) /\ NoRoundStartBefore(processed, i))
            => /\ pc = "aborted_in_loop"
               /\ i = Len(processed)
               /\ result = <<>>
               /\ ended_round_reports = <<>>

\* a TeamWin after a join and a map loading, with no round started
C32_Witness ==
    /\ Len(processed) = 3
    /\ IsKind(processed, 1, "PlayerJoinsTeam")
    /\ IsKind(processed, 2, "MapLoading")
    /\ IsKind(processed, 3, "TeamWin")
    /\ pc = "aborted_in_loop"
    /\ result = <<>>

\* the places of a roster, team and position, that hold steam id s
PlacesOf(roster, s) ==
    UNION {{<<t, i>> : i \in {n \in 1 .. Len(roster[t]) : roster[t][n].steam_id = s}} :
              t \in RosterTeams}

\* C33: in every state of the replay each player, identified by steam id,
\* has at most one place in the CT and TERRORIST rosters taken together,
\* in the roster of the match and in the roster of every closed round,
\* whatever joins, re-joins under another nickname and disconnects came.
C33_PlayerAtMostOnceInRosters ==
    /\ \A s \in SteamIds : Cardinality(PlacesOf(heap[team_composition], s)) <= 1
    /\ \A k \in 1 .. Len(ended_round_reports) : \A s \in SteamIds :
           Cardinality(PlacesOf(ended_round_reports[k].team_composition, s)) <= 1

\* a player of the CT roster joins TERRORIST under another nickname while a
\* round is open, and the round is closed with that roster
C33_Witness ==
    /\ Len(processed) = 4
    /\ IsKind(processed, 1, "PlayerJoinsTeam")
    /\ IsKind(processed, 2, "RoundStart")
    /\ IsKind(processed, 3, "PlayerJoinsTeam")
    /\ IsKind(processed, 4, "RoundEnd")
    /\ processed[1].team = CT_team
    /\ processed[3].team = Terrorist_team
    /\ PlayerEq(processed[3].player, processed[1].player)
    /\ processed[3].player # processed[1].player
    /\ heap[team_composition][CT_team] = <<>>
    /\ heap[team_composition][Terrorist_team] = <<processed[3].player>>
    /\ Len(ended_round_reports) = 1
    /\ ended_round_reports[1].team_composition = heap[team_composition]

\* the number of events of a kind in seq
CountKind(seq, kind) == Cardinality({i \in 1 .. Len(seq) : IsKind(seq, i, kind)})

\* C34: each opened round yields at most one report: in every state the
\* closed round reports are at most as many as the RoundStart events
\* processed, also when a RoundEnd is processed again with no RoundStart in
\* between.
C34_AtMostOneReportPerRoundStart ==
    Len(ended_round_reports) <= CountKind(Accepted, "RoundStart")

\* the number of times event e occurs in seq
Occurrences(seq, e) == Cardinality({i \in 1 .. Len(seq) : seq[i] = e})

\* the number of times event e occurs in the first n reports
OccurrencesInReports(reports, e) ==
    LET upto[n \in 0 .. Len(reports)] ==
            IF n = 0 THEN 0
            ELSE upto[n - 1] + Occurrences(reports[n].events, e)
    IN  upto[Len(reports)]

\* no round is open: none was opened, or the last one opened is closed
EveryRoundClosed == ongoing_round = <<>> \/ ongoing_round[1].ended

\* C35: when every opened round is closed, each Attack, Kill and TeamWin
\* event that was processed without raising is in exactly one of the closed
\* round reports: none is lost and none is there twice.
C35_RoundEventInExactlyOneReport ==
    EveryRoundClosed =>
        \A i \in 1 .. Len(Accepted) :
            Accepted[i].kind \in {"Attack", "Kill", "TeamWin"} =>
                OccurrencesInReports(ended_round_reports, Accepted[i])
                    = Occurrences(Accepted, Accepted[i])

\* the events of a report begin with a RoundStart and end with a RoundEnd
FromStartToEnd(report) ==
    /\ report.events # <<>>
    /\ report.events[1].kind = "RoundStart"
    /\ report.events[Len(report.events)].kind = "RoundEnd"

\* C36: every round report of the replay has a non-empty list of events
\* whose first is a RoundStart and whose last is a RoundEnd, so its start
\* and end time are read from events that exist.
C36_ReportFromRoundStartToRoundEnd ==
    /\ \A k \in 1 .. Len(ended_round_reports) :
           /\ FromStartToEnd(ended_round_reports[k])
           /\ ended_round_reports[k].start_time
                  = ended_round_reports[k].events[1].timestamp
    /\ result # <<>> =>
           \A k \in 1 .. Len(result[1].rounds) : FromStartToEnd(result[1].rounds[k])

\* a round closed, attacked and closed again: the second report of the round
\* holds four events and still runs from the RoundStart to a RoundEnd
C36_Witness ==
    /\ Returned("incomplete_match_round_reports")
    /\ Len(result[1].rounds) = 2
    /\ Len(result[1].rounds[2].events) = 4
    /\ result[1].rounds[2].events[2].kind = "RoundEnd"
    /\ result[1].rounds[2].events[3].kind = "Attack"

\* C37: for every event list on which completed_match_report succeeds, the
\* round reports of its match report are, in order and in content, the list
\* that incomplete_match_round_reports returns for the same event list.
C37_CompletedRoundsAreIncompleteRounds ==
    Returned("completed_match_report") =>
        LET incomplete == MatchReportFactory_incomplete_match_round_reports(processed)
        IN  /\ incomplete.raised = ""
            /\ result[1].report.round_reports = incomplete.rounds

\* a report of a match that ended with a round of a joined player closed and
\* the next round still open
C37_Witness ==
    /\ Returned("completed_match_report")
    /\ Len(processed) = 4
    /\ IsKind(processed, 1, "PlayerJoinsTeam")
    /\ processed[1].team = CT_team
    /\ IsKind(processed, 2, "RoundStart")
    /\ IsKind(processed, 3, "RoundEnd")
    /\ IsKind(processed, 4, "RoundStart")
    /\ Len(result[1].report.round_reports) = 1
    /\ result[1].report.round_reports[1].team_composition[CT_team] # <<>>

\* the positions of the round reports of the list whose roster lists player
RoundsWith(rounds, player) ==
    {i \in 1 .. Len(rounds) : PlayerIn(player, get_all_players(rounds[i]))}

\* C38: for every match report and every player P, the rounds won and the
\* rounds lost of P's folded stats are together at most the round reports
\* of the match whose roster lists P: a round counts at most once.
C38_RoundCountsAtMostOnce ==
    Returned("completed_match_report") =>
        \A P \in Players :
            LET stats == MatchReport_get_player_stats(result[1].report, P)
            IN  stats.rounds_won + stats.rounds_lost
                    <= Cardinality(RoundsWith(result[1].report.round_reports, P))

\* the sum of the buckets of damage_inflicted_by_weapon
SumOfBuckets(by_weapon) ==
    LET sum[S \in SUBSET DOMAIN by_weapon] ==
            IF S = {} THEN 0
            ELSE LET w == CHOOSE x \in S : TRUE
                 IN  by_weapon[w] + sum[S \ {w}]
    IN  sum[DOMAIN by_weapon]

\* C39: whatever events are folded into stats that started at zero, the
\* damage inflicted is the sum of the buckets of damage by weapon, and no
\* counter and no bucket is negative.
C39_DamageIsSumOfWeaponBuckets ==
    \A i \in 1 .. Len(table) :
        LET stats == table[i].value
        IN  /\ stats.damage_inflicted = SumOfBuckets(stats.damage_inflicted_by_weapon)
            /\ \A w \in DOMAIN stats.damage_inflicted_by_weapon :
                   stats.damage_inflicted_by_weapon[w] >= 0
            /\ stats.damage_inflicted >= 0
            /\ stats.damage_received >= 0
            /\ stats.kills >= 0
            /\ stats.deaths >= 0
            /\ stats.rounds_won >= 0
            /\ stats.rounds_lost >= 0

\* two attacks of one steam id under two nicknames with two weapons
C39_Witness ==
    /\ Len(folded) = 2
    /\ Len(table) = 1
    /\ folded[1].event = AttackEvent_(1, PlayerA, PlayerB, "mp5navy", 13)
    /\ folded[2].event = AttackEvent_(1, PlayerA2, PlayerB, "usp", 21)
    /\ table[1].value.damage_inflicted = 34
    /\ DOMAIN table[1].value.damage_inflicted_by_weapon = {"mp5navy", "usp"}
    /\ WeaponDamage(table[1].value, "mp5navy") = 13
    /\ WeaponDamage(table[1].value, "usp") = 21

====
